---- MODULE Spec2Model ----
(***************************************************************************)
(* Model of the glossary segmentation engine of src/core.py: the text      *)
(* normalizer, the line merger, the page-boundary splitter, the bilingual  *)
(* splitter cascade with its validators, the page tagger / media resolver  *)
(* and TermProcessor.process_single_entry with its ProcessingStats.        *)
(*                                                                         *)
(* A Python str is a sequence of characters; a character is a TLA+ string  *)
(* naming it.  ASCII characters name themselves ("a", "7", " ", "-").      *)
(* Characters outside ASCII carry a name: Han characters their pinyin      *)
(* ("xi", "bao"), Greek letters their name ("alpha", "DELTA"), full-width  *)
(* punctuation an FW.. name, the ideographic space "IDSP", the hair space  *)
(* "HAIR".  The regular expressions of the source are translated one by    *)
(* one into operators over such sequences.                                 *)
(***************************************************************************)
EXTENDS Integers, Sequences, FiniteSets, TLC

VARIABLES
    text,          \* _normalize: the string the next application acts on
    norm_trace,    \* _normalize: the results of the applications so far
    last_content,  \* the content handed to the splitter or to process_single_entry
    method_idx,    \* split_chinese_english: the method the loop tries next
    attempts,      \* split_chinese_english: what each method tried so far returned
    split_return,  \* split_chinese_english: << >> while it runs, <<r>> once it returned r
    stats,         \* TermProcessor.stats
    last_page,     \* the page_number of the last process_single_entry / get_tag_for_page
    config,        \* the book's configuration: tag_ranges, image_folder, image_prefix
    disk,          \* the file system: the folders that exist, the files in the image folder
    last_result,   \* what the last process_single_entry returned: << >> is None
    last_tag,      \* what the last get_tag_for_page returned
    pc,            \* extract_and_tag_terms / merge_broken_lines: where the run is
    terms_file,    \* the file on disk: its status ("missing", "unreadable", "ok"), its lines
    raw_lines,     \* the lines read from terms_file
    line_idx,      \* merge_broken_lines: the line the loop takes next
    buffer,        \* merge_broken_lines: buffer
    merged_lines,  \* merge_broken_lines: merged_lines
    branches,      \* merge_broken_lines: the branch each line took
    page_boundaries, \* split_entries_by_page: potential_pages of each line
    entries,       \* split_entries_by_page: entries
    entry_idx,     \* extract_and_tag_terms: the entry the loop takes next
    successful_extractions,
    failed_extractions,
    returned,      \* what extract_and_tag_terms returned: << >> before it returns
    output_file,   \* write_anki_output: what is in the output file, << >> before the call
    cwd,           \* the working directory of the process
    shelf,         \* the book folders on disk: each book's terms file and images
    runs,          \* process_single_book: the state of each book's run
    pair,          \* the (chinese, english) handed to the validators and to clean_text
    verdict,       \* what the validator applied to pair found: << >> before it is applied
    book_folders,  \* main: the book folders the batch loop goes through
    book_idx,      \* main: the book folder the batch loop takes next
    report,        \* main: the ProcessingReport
    book_returns   \* what each process_single_book call of the loop returned

vars ==
    <<text, norm_trace, last_content, method_idx, attempts, split_return, stats,
      last_page, config, disk, last_result, last_tag, pc, terms_file, raw_lines,
      line_idx, buffer, merged_lines, branches, page_boundaries, entries, entry_idx,
      successful_extractions, failed_extractions, returned, output_file, cwd, shelf,
      runs, pair, verdict, book_folders, book_idx, report, book_returns>>

(***************************************************************************)
(* Characters and the character classes of the source's patterns.          *)
(***************************************************************************)

\* [一-龥] (chinese_pattern): the Han characters the inputs use.
\* zhong ying wen ming ci dui zhao suo yin spell the index header
\* (core.py:57), tui jian yue du and can kao wen xian the two section
\* headers (core.py:63-64); xi bao liang biao are ordinary term characters.
ChineseChars ==
    {"zhong", "ying", "wen", "ming", "ci", "dui", "zhao", "suo", "yin",
     "tui", "jian", "yue", "du", "can", "kao", "xian",
     "xi", "bao", "liang", "biao"}

LatinUpper ==
    {"A", "B", "C", "D", "E", "F", "G", "H", "I", "J", "K", "L", "M",
     "N", "O", "P", "Q", "R", "S", "T", "U", "V", "W", "X", "Y", "Z"}

LatinLower ==
    {"a", "b", "c", "d", "e", "f", "g", "h", "i", "j", "k", "l", "m",
     "n", "o", "p", "q", "r", "s", "t", "u", "v", "w", "x", "y", "z"}

\* [Α-Ω], [α-ω], and the rest of [Ͱ-Ͽ]
GreekUpper == {"ALPHA", "DELTA"}
GreekLower == {"alpha", "beta"}
GreekOther == {"phi_symbol"}

Digits == {"0", "1", "2", "3", "4", "5", "6", "7", "8", "9"}

\* str.isspace / the pattern class \s
Whitespace == {" ", "\t", "\n", "IDSP", "HAIR"}

IsChinese(c) == c \in ChineseChars

\* english_pattern / latin_greek_chars: [a-zA-ZͰ-Ͽ]
IsEnglish(c) ==
    c \in LatinUpper \cup LatinLower \cup GreekUpper \cup GreekLower \cup GreekOther

\* [A-ZΑ-Ω]

\* [a-zα-ω]

IsDigit(c) == c \in Digits

IsSpace(c) == c \in Whitespace

(***************************************************************************)
(* Sequence helpers standing for str operations.                           *)
(***************************************************************************)

\* the characters of s at the 1-based positions a..b, as a Python slice
\* gives them: positions past the end are left out
Slice(s, a, b) ==
    IF a > b \/ a > Len(s) THEN <<>>
    ELSE SubSeq(s, a, IF b > Len(s) THEN Len(s) ELSE b)

\* index of the first character from position i on that is not whitespace,
\* Len(s) + 1 when there is none
RECURSIVE FirstNonSpace(_, _)
FirstNonSpace(s, i) ==
    IF i > Len(s) THEN Len(s) + 1
    ELSE IF IsSpace(s[i]) THEN FirstNonSpace(s, i + 1) ELSE i

\* index of the last character up to position i that is not whitespace,
\* 0 when there is none
RECURSIVE LastNonSpace(_, _)
LastNonSpace(s, i) ==
    IF i < 1 THEN 0
    ELSE IF IsSpace(s[i]) THEN LastNonSpace(s, i - 1) ELSE i

\* str.strip()
strip(s) == Slice(s, FirstNonSpace(s, 1), LastNonSpace(s, Len(s)))

\* whether some character of s is in the set S: re.search('[..]', s)
Contains(S, s) == \E i \in 1..Len(s) : s[i] \in S

\* number of characters of s in the set S: len(re.findall('[..]', s))
Count(S, s) == Cardinality({i \in 1..Len(s) : s[i] \in S})

(***************************************************************************)
(* The pattern matcher: Python's re, as far as the source uses it.  A      *)
(* pattern is a sequence of nodes; Match explores the alternatives in the  *)
(* order of re's backtracking (a greedy repetition longest first, a lazy   *)
(* one shortest first) and returns the first success.                      *)
(***************************************************************************)

\* a character class: the characters of set, or with neg all the others
Cls(S) == [neg |-> FALSE, set |-> S]
NotCls(S) == [neg |-> TRUE, set |-> S]
InClass(cl, c) == (c \in cl.set) # cl.neg

EnglishChars == LatinUpper \cup LatinLower \cup GreekUpper \cup GreekLower \cup GreekOther
UpperChars == LatinUpper \cup GreekUpper
LowerChars == LatinLower \cup GreekLower

\* . (any character but a newline), \s, \S, \d
Dot == NotCls({"\n"})
SpaceCls == Cls(Whitespace)
NonSpaceCls == NotCls(Whitespace)
DigitCls == Cls(Digits)

\* x, x*, x+, x*?, x{n,}
One(cl) == [t |-> "chr", cl |-> cl, min |-> 1, max |-> 1, lazy |-> FALSE]
Star(cl) == [t |-> "chr", cl |-> cl, min |-> 0, max |-> -1, lazy |-> FALSE]
Plus(cl) == [t |-> "chr", cl |-> cl, min |-> 1, max |-> -1, lazy |-> FALSE]
LazyStar(cl) == [t |-> "chr", cl |-> cl, min |-> 0, max |-> -1, lazy |-> TRUE]
AtLeast(n, cl) == [t |-> "chr", cl |-> cl, min |-> n, max |-> -1, lazy |-> FALSE]
Lit(c) == One(Cls({c}))

\* ( and ) of capture group g, ^, $, (?:sub)*, a|b, (?<!x), (?=a|b)
Open(g) == [t |-> "open", g |-> g]
Close(g) == [t |-> "close", g |-> g]
Bol == [t |-> "bol"]
Eol == [t |-> "eol"]
Rep(sub) == [t |-> "rep", sub |-> sub]
Alt(alts) == [t |-> "alt", alts |-> alts]
NotAfter(cl) == [t |-> "notafter", cl |-> cl]
Ahead(alts) == [t |-> "ahead", alts |-> alts]

\* a literal string
Word(w) == [i \in 1..Len(w) |-> Lit(w[i])]

NoMatch == [ok |-> FALSE]
NoCaps == <<<<1, 1>>, <<1, 1>>>>

\* length of the run of characters of cl from pos on, at most max (-1: no limit)
RECURSIVE RunLen(_, _, _, _)
RunLen(cl, s, pos, max) ==
    IF max = 0 \/ pos > Len(s) \/ ~InClass(cl, s[pos]) THEN 0
    ELSE 1 + RunLen(cl, s, pos + 1, IF max < 0 THEN max ELSE max - 1)

\* $ matches at the end and before a final newline
AtEol(s, pos) == pos = Len(s) + 1 \/ (pos = Len(s) /\ s[pos] = "\n")

RECURSIVE Match(_, _, _, _)
RECURSIVE TryCounts(_, _, _, _, _, _, _)
RECURSIVE TryAlts(_, _, _, _, _, _)

\* the pattern p from position pos of s on, with the groups caps captured so far
Match(p, s, pos, caps) ==
    IF Len(p) = 0 THEN [ok |-> TRUE, end |-> pos, caps |-> caps]
    ELSE LET n == Head(p)
             rest == Tail(p)
         IN  CASE n.t = "chr" ->
                    LET run == RunLen(n.cl, s, pos, n.max)
                    IN  IF run < n.min THEN NoMatch
                        ELSE IF n.lazy
                             THEN TryCounts(rest, s, pos, caps, n.min, run, 1)
                             ELSE TryCounts(rest, s, pos, caps, run, n.min, -1)
               [] n.t = "open" ->
                    Match(rest, s, pos, [caps EXCEPT ![n.g] = <<pos, pos>>])
               [] n.t = "close" ->
                    Match(rest, s, pos, [caps EXCEPT ![n.g] = <<caps[n.g][1], pos>>])
               [] n.t = "bol" ->
                    IF pos = 1 THEN Match(rest, s, pos, caps) ELSE NoMatch
               [] n.t = "eol" ->
                    IF AtEol(s, pos) THEN Match(rest, s, pos, caps) ELSE NoMatch
               [] n.t = "rep" ->
                    LET more == Match(n.sub \o p, s, pos, caps)
                    IN  IF more.ok THEN more ELSE Match(rest, s, pos, caps)
               [] n.t = "alt" ->
                    TryAlts(n.alts, 1, rest, s, pos, caps)
               [] n.t = "notafter" ->
                    IF pos > 1 /\ InClass(n.cl, s[pos - 1]) THEN NoMatch
                    ELSE Match(rest, s, pos, caps)
               [] n.t = "ahead" ->
                    IF TryAlts(n.alts, 1, <<>>, s, pos, caps).ok
                    THEN Match(rest, s, pos, caps)
                    ELSE NoMatch

\* a repetition taking k characters, then k + step, ... up to last
TryCounts(rest, s, pos, caps, k, last, step) ==
    LET m == Match(rest, s, pos + k, caps)
    IN  IF m.ok THEN m
        ELSE IF k = last THEN NoMatch
        ELSE TryCounts(rest, s, pos, caps, k + step, last, step)

\* the alternatives in order, each followed by rest
TryAlts(alts, i, rest, s, pos, caps) ==
    IF i > Len(alts) THEN NoMatch
    ELSE LET m == Match(alts[i] \o rest, s, pos, caps)
         IN  IF m.ok THEN m ELSE TryAlts(alts, i + 1, rest, s, pos, caps)

\* A match object: start() and end() are 0-based offsets as in Python, so
\* s[:m.start] is Slice(s, 1, m.start) and s[m.end:] is Slice(s, m.end + 1, Len(s)).
match_object(s, pos, m) ==
    IF m.ok
    THEN [ok |-> TRUE, start |-> pos - 1, end |-> m.end - 1,
          g1 |-> Slice(s, m.caps[1][1], m.caps[1][2] - 1),
          g2 |-> Slice(s, m.caps[2][1], m.caps[2][2] - 1),
          start1 |-> m.caps[1][1] - 1, end1 |-> m.caps[1][2] - 1]
    ELSE NoMatch

MatchAt(p, s, pos) == match_object(s, pos, Match(p, s, pos, NoCaps))

\* re.match(p, s)
re_match(p, s) == MatchAt(p, s, 1)

\* re.search(p, s), looking from the 1-based position pos on
RECURSIVE SearchFrom(_, _, _)
RECURSIVE search_next(_, _, _, _)
SearchFrom(p, s, pos) ==
    IF pos > Len(s) + 1 THEN NoMatch
    ELSE search_next(p, s, pos, MatchAt(p, s, pos))

search_next(p, s, pos, m) == IF m.ok THEN m ELSE SearchFrom(p, s, pos + 1)

re_search(p, s) == SearchFrom(p, s, 1)

\* where the scan goes on after the match m: an empty match moves one further
after_match(m) == IF m.end = m.start THEN m.end + 2 ELSE m.end + 1

\* list(re.finditer(p, s)): the successive non-overlapping matches
RECURSIVE FindIterFrom(_, _, _)
RECURSIVE finditer_next(_, _, _)
FindIterFrom(p, s, pos) == finditer_next(p, s, SearchFrom(p, s, pos))

finditer_next(p, s, m) ==
    IF ~m.ok THEN <<>> ELSE <<m>> \o FindIterFrom(p, s, after_match(m))

re_finditer(p, s) == FindIterFrom(p, s, 1)

\* re.sub(p, repl, s)
RECURSIVE SubFrom(_, _, _, _)
RECURSIVE sub_next(_, _, _, _, _)
SubFrom(p, repl, s, pos) == sub_next(p, repl, s, pos, SearchFrom(p, s, pos))

\* an empty match is replaced and the character after it is kept
sub_next(p, repl, s, pos, m) ==
    IF ~m.ok THEN Slice(s, pos, Len(s))
    ELSE Slice(s, pos, m.start) \o repl \o
         Slice(s, m.end + 1, after_match(m) - 1) \o
         SubFrom(p, repl, s, after_match(m))

re_sub(p, repl, s) == SubFrom(p, repl, s, 1)

(***************************************************************************)
(* TermProcessor._normalize, core.py:79-91                                 *)
(***************************************************************************)

\* _fw2hw, core.py:79-81, and the second table of core.py:90
fw2hw(c) ==
    CASE c = "FWCOMMA" -> ","
      [] c = "FWSTOP"  -> "."
      [] c = "FWSEMI"  -> ";"
      [] c = "FWCOLON" -> ":"
      [] OTHER -> c

translate(s) == [i \in 1..Len(s) |-> fw2hw(s[i])]

\* text.replace('\t', ' ')
replace_tab(s) == [i \in 1..Len(s) |-> IF s[i] = "\t" THEN " " ELSE s[i]]

IsWideSpace(c) == c \in {"IDSP", "HAIR"}

\* re.sub(r'[　 ]+', ' ', text): every maximal run becomes one space
RECURSIVE collapse_wide(_, _)
collapse_wide(s, i) ==
    IF i > Len(s) THEN <<>>
    ELSE IF IsWideSpace(s[i])
         THEN IF i > 1 /\ IsWideSpace(s[i - 1])
              THEN collapse_wide(s, i + 1)
              ELSE <<" ">> \o collapse_wide(s, i + 1)
         ELSE <<s[i]>> \o collapse_wide(s, i + 1)

\* _normalize with every wide space turned into a tab after the tabs were replaced
normalize_wide_as_tab(t) ==
    [i \in 1..Len(t) |->
        IF IsWideSpace(t[i]) THEN "\t"
        ELSE IF t[i] = "\t" THEN " " ELSE fw2hw(t[i])]

_normalize(t) == translate(collapse_wide(replace_tab(translate(t)), 1))

(***************************************************************************)
(* TermProcessor._init_patterns, core.py:53-77                             *)
(***************************************************************************)

IndexHeader == <<"zhong", "ying", "wen", "ming", "ci", "dui", "zhao", "suo", "yin">>
ReadingHeader == <<"tui", "jian", "yue", "du">>
ReferenceHeader == <<"can", "kao", "wen", "xian">>

filter_patterns ==
    << <<Bol>> \o Word(IndexHeader),                                 \* ^中英文名词对照索引
       <<Bol, One(Cls(LatinUpper)), Star(SpaceCls), Eol>>,            \* ^[A-Z]\s*$
       <<Bol, AtLeast(3, DigitCls), Star(SpaceCls), Eol>>,            \* ^\d{3,}\s*$
       <<Bol, One(Cls({"FWCOMMA", "IDSTOP", "FWSEMI", "FWCOLON", ",", ".", ";", ":"})),
         Star(SpaceCls), Eol>>,                                       \* ^[，。；：,\.;:]\s*$
       <<Bol, One(Cls({"FWLPAR", "FWRPAR", "(", ")"})), Star(SpaceCls), Eol>>,
       <<Bol, Star(SpaceCls), Eol>>,                                  \* ^\s*$
       <<Bol>> \o Word(ReadingHeader),                                \* ^推荐阅读
       <<Bol>> \o Word(ReferenceHeader) >>                            \* ^参考文献

chinese_pattern == Cls(ChineseChars)
english_pattern == Cls(EnglishChars)
latin_greek_chars == Cls(EnglishChars)

\* (\d+(?:[,，]\s*\d+)*)\s*$
page_pattern ==
    <<Open(1), Plus(DigitCls),
      Rep(<<One(Cls({",", "FWCOMMA"})), Star(SpaceCls), Plus(DigitCls)>>),
      Close(1), Star(SpaceCls), Eol>>

(***************************************************************************)
(* TermProcessor.should_filter_content, core.py:93-110                     *)
(***************************************************************************)

\* ^[0-9\s，。；：,\.;:\(\)（）-]+$
symbols_only_pattern ==
    <<Bol,
      Plus(Cls(Digits \cup Whitespace \cup
               {"FWCOMMA", "IDSTOP", "FWSEMI", "FWCOLON", ",", ".", ";", ":",
                "(", ")", "FWLPAR", "FWRPAR", "-"})),
      Eol>>

should_filter_content(content) ==
    LET content_clean == strip(content)
    IN  \/ \E k \in 1..Len(filter_patterns) : re_search(filter_patterns[k], content_clean).ok
        \/ Len(content_clean) < 2
        \/ re_match(symbols_only_pattern, content_clean).ok

(***************************************************************************)
(* TermProcessor.validate_split_result, core.py:369-392, and               *)
(* validate_split_result_enhanced, core.py:394-413                         *)
(***************************************************************************)

too_few_letters_at_threshold(letters, length) == 10 * letters <= 3 * length

\* len(english_clean) < len(english) * 0.3, in tenths
TooFewLetters(letters, length) == 10 * letters < 3 * length

validate_split_result(chinese, english) ==
    /\ Len(chinese) > 0 /\ Len(english) > 0
    /\ Contains(ChineseChars, chinese)
    /\ Contains(EnglishChars, english)
    /\ ~(Len(strip(chinese)) < 1 \/ Len(strip(english)) < 1)
    /\ ~TooFewLetters(Count(EnglishChars, english), Len(english))

enhanced_allowing_logographs(chinese, english) ==
    /\ validate_split_result(chinese, english)
    /\ ~(Count(EnglishChars, strip(english)) < 2)

enhanced_with_one_letter(chinese, english) ==
    /\ validate_split_result(chinese, english)
    /\ ~(Count(EnglishChars, strip(english)) < 1)
    /\ ~Contains(ChineseChars, strip(english))

validate_split_result_enhanced(chinese, english) ==
    /\ validate_split_result(chinese, english)
    /\ ~(Count(EnglishChars, strip(english)) < 2)
    /\ ~Contains(ChineseChars, strip(english))

(***************************************************************************)
(* The six strategies of the bilingual splitter.  A result is the pair     *)
(* <<chinese_part, english_part>>; None is the empty tuple.                *)
(***************************************************************************)

None == <<>>

\* 1-based index of the last Han character of s, 0 when there is none:
\* chinese_matches[-1].end(), and chinese_matches[-1].start() + 1
RECURSIVE LastChineseUpTo(_, _)
LastChineseUpTo(s, i) ==
    IF i < 1 THEN 0
    ELSE IF IsChinese(s[i]) THEN i ELSE LastChineseUpTo(s, i - 1)

LastChinese(s) == LastChineseUpTo(s, Len(s))

\* split_chinese_english_basic with the split point one character too far
basic_split_one_late(content) ==
    LET last == LastChinese(content)
    IN  IF last = 0 THEN None
        ELSE LET remaining == Slice(content, last, Len(content))
                 english_match == re_search(<<One(english_pattern)>>, remaining)
             IN  IF ~english_match.ok THEN None
                 ELSE LET split_point == last + english_match.start
                      IN  << strip(Slice(content, 1, split_point)),
                             strip(Slice(content, split_point + 1, Len(content))) >>

\* split_chinese_english_basic, core.py:166-189
split_chinese_english_basic(content) ==
    LET last == LastChinese(content)
    IN  IF last = 0 THEN None
        ELSE LET remaining == Slice(content, last, Len(content))
                 english_match == re_search(<<One(english_pattern)>>, remaining)
             IN  IF ~english_match.ok THEN None
                 ELSE LET split_point == (last - 1) + english_match.start
                      IN  << strip(Slice(content, 1, split_point)),
                             strip(Slice(content, split_point + 1, Len(content))) >>

\* split_chinese_english_blocks, core.py:191-214
split_chinese_english_blocks(content) ==
    \* chinese_blocks[-1].end() is the position of the last Han character
    LET split_point == LastChinese(content)
    IN  IF split_point = 0 THEN None
        ELSE LET remaining == strip(Slice(content, split_point + 1, Len(content)))
             IN  IF ~re_search(<<One(english_pattern)>>, remaining).ok THEN None
                 ELSE << strip(Slice(content, 1, split_point)), remaining >>

\* ^(.*[一-龥].*?) , the head every template of core.py:221-224 and :251 shares
chinese_head == <<Bol, Open(1), Star(Dot), One(chinese_pattern), LazyStar(Dot), Close(1)>>

\* ([L].*?)$
english_tail == <<Open(2), One(latin_greek_chars), LazyStar(Dot), Close(2), Eol>>

split_templates ==
    << chinese_head \o <<Plus(SpaceCls)>> \o english_tail,
       chinese_head \o <<Star(SpaceCls), Lit(","), Star(SpaceCls)>> \o english_tail,
       chinese_head \o <<Star(SpaceCls), Open(2), One(Cls(UpperChars)),
                         One(latin_greek_chars), LazyStar(Dot), Close(2), Eol>>,
       chinese_head \o <<Star(SpaceCls), Lit("("), Star(SpaceCls), Open(2),
                         One(latin_greek_chars), LazyStar(Dot), Close(2),
                         Star(SpaceCls), Lit(")"), Star(Dot), Eol>> >>

\* the loop of core.py:227-237 from template k on
RECURSIVE patterns_from(_, _)
patterns_from(content, k) ==
    IF k > Len(split_templates) THEN None
    ELSE LET match == re_match(split_templates[k], content)
             chinese_part == strip(match.g1)
             english_part == strip(match.g2)
         IN  IF /\ match.ok
                /\ Len(chinese_part) > 0 /\ Len(english_part) > 0
                /\ Contains(ChineseChars, chinese_part)
                /\ Contains(EnglishChars, english_part)
             THEN <<chinese_part, english_part>>
             ELSE patterns_from(content, k + 1)

\* split_chinese_english_patterns, core.py:216-242
split_chinese_english_patterns(content) == patterns_from(content, 1)

\* ^(.*[一-龥].*?)\s*[-\s]*\s*([0-9]*[L].*?)$
special_chars_pattern ==
    chinese_head \o
    <<Star(SpaceCls), Star(Cls({"-"} \cup Whitespace)), Star(SpaceCls),
      Open(2), Star(Cls(Digits)), One(latin_greek_chars), LazyStar(Dot), Close(2), Eol>>

\* split_chinese_english_special_chars, core.py:244-269
split_chinese_english_special_chars(content) ==
    LET content_clean == strip(content)
        match == re_match(special_chars_pattern, content_clean)
    IN  IF ~match.ok THEN None
        ELSE LET chinese_part ==
                     re_sub(<<Star(Cls({"-"} \cup Whitespace)), Eol>>, <<>>, strip(match.g1))
                 english_part == strip(match.g2)
             IN  IF /\ Len(chinese_part) > 0 /\ Len(english_part) > 0
                    /\ Contains(ChineseChars, chinese_part)
                    /\ Contains(EnglishChars, english_part)
                 THEN <<chinese_part, english_part>>
                 ELSE None

\* ^([A-ZΑ-Ω]+)\s+([L].*)$   and   ^([L]+)\s+([a-zα-ω][L].*)$
uppercase_pattern1 ==
    <<Bol, Open(1), Plus(Cls(UpperChars)), Close(1), Plus(SpaceCls),
      Open(2), One(latin_greek_chars), Star(Dot), Close(2), Eol>>
uppercase_pattern2 ==
    <<Bol, Open(1), Plus(latin_greek_chars), Close(1), Plus(SpaceCls),
      Open(2), One(Cls(LowerChars)), One(latin_greek_chars), Star(Dot), Close(2), Eol>>

\* split_chinese_english_uppercase_ending, core.py:271-323
split_chinese_english_uppercase_ending(content) ==
    LET content_clean == strip(content)
        page_match == re_search(page_pattern, content_clean)
        content_without_page ==
            IF page_match.ok THEN strip(Slice(content_clean, 1, page_match.start))
            ELSE content_clean
        last_chinese_pos == LastChinese(content_without_page)
        remaining_part ==
            Slice(content_without_page, last_chinese_pos + 1, Len(content_without_page))
        match1 == re_match(uppercase_pattern1, remaining_part)
        match2 == re_match(uppercase_pattern2, remaining_part)
        chinese1 == strip(Slice(content_without_page, 1, last_chinese_pos + Len(match1.g1)))
        chinese2 == strip(Slice(content_without_page, 1, last_chinese_pos + Len(match2.g1)))
    IN  IF last_chinese_pos = 0 THEN None
        ELSE IF match1.ok /\ validate_split_result(chinese1, strip(match1.g2))
        THEN <<chinese1, strip(match1.g2)>>
        ELSE IF match2.ok /\ validate_split_result(chinese2, strip(match2.g2))
        THEN <<chinese2, strip(match2.g2)>>
        ELSE None

\* ^([-]\d+)\s+([L].*)$   and   ^(\d+)\s+([L].*)$
numbers_pattern1 ==
    <<Bol, Open(1), Lit("-"), Plus(DigitCls), Close(1), Plus(SpaceCls),
      Open(2), One(latin_greek_chars), Star(Dot), Close(2), Eol>>
numbers_pattern2 ==
    <<Bol, Open(1), Plus(DigitCls), Close(1), Plus(SpaceCls),
      Open(2), One(latin_greek_chars), Star(Dot), Close(2), Eol>>

\* split_chinese_english_with_numbers with the split placed before the suffix
with_numbers_suffix_cut(content) ==
    LET content_clean == strip(content)
        last_chinese_pos == LastChinese(content_clean)
        remaining_part == Slice(content_clean, last_chinese_pos + 1, Len(content_clean))
        match1 == re_match(numbers_pattern1, remaining_part)
        chinese1 == strip(Slice(content_clean, 1, last_chinese_pos))
    IN  IF last_chinese_pos = 0 THEN None
        ELSE IF match1.ok /\ validate_split_result_enhanced(chinese1, match1.g2)
        THEN <<chinese1, match1.g2>>
        ELSE None

\* split_chinese_english_with_numbers, core.py:325-367
split_chinese_english_with_numbers(content) ==
    LET content_clean == strip(content)
        last_chinese_pos == LastChinese(content_clean)
        remaining_part == Slice(content_clean, last_chinese_pos + 1, Len(content_clean))
        match1 == re_match(numbers_pattern1, remaining_part)
        match2 == re_match(numbers_pattern2, remaining_part)
        chinese1 == strip(Slice(content_clean, 1, last_chinese_pos + Len(match1.g1)))
        chinese2 == strip(Slice(content_clean, 1, last_chinese_pos + Len(match2.g1)))
    IN  IF last_chinese_pos = 0 THEN None
        ELSE IF match1.ok /\ validate_split_result_enhanced(chinese1, match1.g2)
        THEN <<chinese1, match1.g2>>
        ELSE IF match2.ok /\ validate_split_result_enhanced(chinese2, match2.g2)
        THEN <<chinese2, match2.g2>>
        ELSE None

(***************************************************************************)
(* TermProcessor.split_chinese_english, core.py:415-432                    *)
(***************************************************************************)

NumMethods == 6

\* methods[k][1](content), core.py:417-424
method(k, content) ==
    CASE k = 1 -> split_chinese_english_with_numbers(content)
      [] k = 2 -> split_chinese_english_uppercase_ending(content)
      [] k = 3 -> split_chinese_english_basic(content)
      [] k = 4 -> split_chinese_english_blocks(content)
      [] k = 5 -> split_chinese_english_patterns(content)
      [] k = 6 -> split_chinese_english_special_chars(content)

\* accepted that takes any result a method gives
accepted_any_result(result) == result # None

\* core.py:428: result and validate_split_result_enhanced(result[0], result[1])
accepted(result) ==
    result # None /\ validate_split_result_enhanced(result[1], result[2])

\* the loop of core.py:426-432 from method k on
RECURSIVE split_from(_, _)
RECURSIVE split_next(_, _, _)
split_from(content, k) ==
    IF k > NumMethods THEN None ELSE split_next(content, k, method(k, content))

split_next(content, k, result) ==
    IF accepted(result) THEN result ELSE split_from(content, k + 1)

split_chinese_english(content) == split_from(content, 1)

(***************************************************************************)
(* TermProcessor.clean_text, core.py:434-448                               *)
(***************************************************************************)

clean_text_from_first_mark(t) ==
    IF Len(t) = 0 THEN <<>>
    ELSE LET t1 == re_sub(<<Plus(SpaceCls)>>, <<" ">>, strip(t))
             t2 == re_sub(<<Plus(Cls({"FWCOMMA", "IDSTOP", "FWSEMI", "FWCOLON"})),
                            Star(Cls(EnglishChars \cup ChineseChars \cup Digits)), Eol>>,
                          <<>>, t1)
             t3 == re_sub(<<Star(SpaceCls), Plus(Cls({"-"} \cup Whitespace)), Eol>>,
                          <<>>, t2)
         IN  strip(t3)

clean_text(t) ==
    IF Len(t) = 0 THEN <<>>
    ELSE LET t1 == re_sub(<<Plus(SpaceCls)>>, <<" ">>, strip(t))
             t2 == re_sub(<<Plus(Cls({"FWCOMMA", "IDSTOP", "FWSEMI", "FWCOLON"})), Eol>>,
                          <<>>, t1)
             t3 == re_sub(<<Star(SpaceCls), Plus(Cls({"-"} \cup Whitespace)), Eol>>,
                          <<>>, t2)
         IN  strip(t3)

(***************************************************************************)
(* TermProcessor.get_tag_for_page, core.py:450-465                         *)
(***************************************************************************)

DigitValue(c) ==
    CASE c = "0" -> 0 [] c = "1" -> 1 [] c = "2" -> 2 [] c = "3" -> 3 [] c = "4" -> 4
      [] c = "5" -> 5 [] c = "6" -> 6 [] c = "7" -> 7 [] c = "8" -> 8 [] c = "9" -> 9

\* Python integers have no bound; here every number from Huge on counts as Huge,
\* which is above every page and every range the specifications use
Huge == 100000000

\* int(ds) of a string of digits
RECURSIVE ToIntFrom(_, _, _)
ToIntFrom(ds, i, acc) ==
    IF i > Len(ds) THEN acc
    ELSE ToIntFrom(ds, i + 1, IF acc >= Huge THEN Huge ELSE 10 * acc + DigitValue(ds[i]))

ToInt(ds) == ToIntFrom(ds, 1, 0)

\* re.search(r'\d+', page_number)
first_page_match(page_number) == re_search(<<Open(1), Plus(DigitCls), Close(1)>>, page_number)

UnknownChapter == "UNKNOWN_CHAPTER"

\* the label of the last range that contains the page, not of the first
tag_last_match(page_num, ranges, k) ==
    LET hits == {j \in k..Len(ranges) :
                    ranges[j][1] <= page_num /\ page_num <= ranges[j][2]}
    IN  IF hits = {} THEN UnknownChapter
        ELSE ranges[CHOOSE j \in hits : \A i \in hits : i <= j][3]

\* the loop of core.py:461-463 from range k on
RECURSIVE tag_from(_, _, _)
tag_from(page_num, ranges, k) ==
    IF k > Len(ranges) THEN UnknownChapter
    ELSE IF ranges[k][1] <= page_num /\ page_num <= ranges[k][2] THEN ranges[k][3]
    ELSE tag_from(page_num, ranges, k + 1)

get_tag_for_page(page_number_str, ranges) ==
    IF Len(page_number_str) = 0 THEN UnknownChapter
    ELSE LET m == first_page_match(page_number_str)
         IN  IF ~m.ok THEN UnknownChapter
             ELSE tag_from(ToInt(m.g1), ranges, 1)

(***************************************************************************)
(* TermProcessor.record_failure, core.py:467-474, and ProcessingStats,     *)
(* core.py:33-44                                                           *)
(***************************************************************************)

ProcessingStats ==
    [total_processed |-> 0, successful |-> 0, failed |-> 0, filtered_out |-> 0,
     failure_reasons |-> << >>]

SplitFailed == "split failed"            \* "中英文分离失败"
ValidationFailed == "validation failed"  \* "结果验证失败"

\* record_failure that counts the reason but not the failure
record_failure_uncounted(pstats, reason) ==
    [pstats EXCEPT
        !.failure_reasons =
            IF reason \in DOMAIN @ THEN [@ EXCEPT ![reason] = @ + 1]
            ELSE @ @@ (reason :> 1)]

record_failure(pstats, reason) ==
    [pstats EXCEPT
        !.failed = @ + 1,
        !.failure_reasons =
            IF reason \in DOMAIN @ THEN [@ EXCEPT ![reason] = @ + 1]
            ELSE @ @@ (reason :> 1)]

(***************************************************************************)
(* The media resolver of process_single_entry, core.py:507-543             *)
(***************************************************************************)

DigitChar(d) ==
    CASE d = 0 -> "0" [] d = 1 -> "1" [] d = 2 -> "2" [] d = 3 -> "3" [] d = 4 -> "4"
      [] d = 5 -> "5" [] d = 6 -> "6" [] d = 7 -> "7" [] d = 8 -> "8" [] d = 9 -> "9"

\* f"{n}"
RECURSIVE Decimal(_)
Decimal(n) == IF n < 10 THEN <<DigitChar(n)>> ELSE Append(Decimal(n \div 10), DigitChar(n % 10))

\* f"{n:0wd}"
RECURSIVE ZeroPad(_, _)
ZeroPad(ds, w) == IF Len(ds) >= w THEN ds ELSE ZeroPad(<<"0">> \o ds, w)

Png == <<".", "p", "n", "g">>

\* the candidates with the underscore forms probed before the hyphen forms
underscore_first_candidates(image_prefix, page_num) ==
    << image_prefix \o <<"_">> \o ZeroPad(Decimal(page_num), 4) \o Png,
       image_prefix \o <<"_">> \o Decimal(page_num) \o Png,
       image_prefix \o <<"-">> \o ZeroPad(Decimal(page_num), 4) \o Png,
       image_prefix \o ZeroPad(Decimal(page_num), 4) \o Png,
       image_prefix \o <<"-">> \o Decimal(page_num) \o Png,
       image_prefix \o Decimal(page_num) \o Png >>
    \o (IF page_num < 1000
        THEN << image_prefix \o <<"-">> \o ZeroPad(Decimal(page_num), 3) \o Png,
                image_prefix \o ZeroPad(Decimal(page_num), 3) \o Png,
                image_prefix \o <<"_">> \o ZeroPad(Decimal(page_num), 3) \o Png >>
        ELSE << >>)

image_filename_candidates(image_prefix, page_num) ==
    << image_prefix \o <<"-">> \o ZeroPad(Decimal(page_num), 4) \o Png,
       image_prefix \o ZeroPad(Decimal(page_num), 4) \o Png,
       image_prefix \o <<"-">> \o Decimal(page_num) \o Png,
       image_prefix \o Decimal(page_num) \o Png,
       image_prefix \o <<"_">> \o ZeroPad(Decimal(page_num), 4) \o Png,
       image_prefix \o <<"_">> \o Decimal(page_num) \o Png >>
    \o (IF page_num < 1000
        THEN << image_prefix \o <<"-">> \o ZeroPad(Decimal(page_num), 3) \o Png,
                image_prefix \o ZeroPad(Decimal(page_num), 3) \o Png,
                image_prefix \o <<"_">> \o ZeroPad(Decimal(page_num), 3) \o Png >>
        ELSE << >>)

\* f'<img src="{image_filename}">'
ImgTag(image_filename) == <<"<img src=\"">> \o image_filename \o <<"\">">>

\* the loop of core.py:532-537 from candidate k on; files are the names that
\* exist in the image folder
RECURSIVE first_existing(_, _, _)
first_existing(candidates, files, k) ==
    IF k > Len(candidates) THEN << >>
    ELSE IF candidates[k] \in files THEN ImgTag(candidates[k])
    ELSE first_existing(candidates, files, k + 1)

\* fs: [folders: the paths that exist, files: the names in the image folder]
image_tag_for(page_number, image_folder, image_prefix, fs) ==
    LET m == first_page_match(page_number)
    IN  IF m.ok /\ image_folder # "" /\ image_folder \in fs.folders
        THEN first_existing(image_filename_candidates(image_prefix, ToInt(m.g1)),
                            fs.files, 1)
        ELSE << >>

(***************************************************************************)
(* TermProcessor.process_single_entry, core.py:476-553: the stats after    *)
(* the call and what it returns (<< >>: None, <<record>>: the dict).       *)
(***************************************************************************)

\* entry_from_terms that builds the record with its two terms exchanged
entry_terms_exchanged(pstats, chinese_term, english_term, page_number, tag_ranges, image_folder, image_prefix, fs) ==
    IF ~validate_split_result(chinese_term, english_term)
    THEN [stats |-> record_failure(pstats, ValidationFailed), result |-> << >>]
    ELSE [stats |-> [pstats EXCEPT !.successful = @ + 1],
          result |-> << [chinese |-> english_term,
                         english |-> chinese_term,
                         image |-> image_tag_for(page_number, image_folder,
                                                 image_prefix, fs),
                         page |-> page_number,
                         tag |-> get_tag_for_page(page_number, tag_ranges)] >>]

\* entry_from_terms that takes an entry with no illustration for a failure
entry_failing_without_media(pstats, chinese_term, english_term, page_number, tag_ranges, image_folder, image_prefix, fs) ==
    IF \/ ~validate_split_result(chinese_term, english_term)
       \/ image_tag_for(page_number, image_folder, image_prefix, fs) = << >>
    THEN [stats |-> record_failure(pstats, ValidationFailed), result |-> << >>]
    ELSE [stats |-> [pstats EXCEPT !.successful = @ + 1],
          result |-> << [chinese |-> chinese_term,
                         english |-> english_term,
                         image |-> image_tag_for(page_number, image_folder,
                                                 image_prefix, fs),
                         page |-> page_number,
                         tag |-> get_tag_for_page(page_number, tag_ranges)] >>]

\* core.py:507-548: the cleaned terms are validated and the record is built
entry_from_terms(pstats, chinese_term, english_term, page_number, tag_ranges, image_folder, image_prefix, fs) ==
    IF ~validate_split_result(chinese_term, english_term)
    THEN [stats |-> record_failure(pstats, ValidationFailed), result |-> << >>]
    ELSE [stats |-> [pstats EXCEPT !.successful = @ + 1],
          result |-> << [chinese |-> chinese_term,
                         english |-> english_term,
                         image |-> image_tag_for(page_number, image_folder,
                                                 image_prefix, fs),
                         page |-> page_number,
                         tag |-> get_tag_for_page(page_number, tag_ranges)] >>]

\* core.py:496-505: the split result, None or a pair whose parts are cleaned
entry_from_split(pstats, split_result, page_number, tag_ranges, image_folder, image_prefix, fs) ==
    IF split_result = None
    THEN [stats |-> record_failure(pstats, SplitFailed), result |-> << >>]
    ELSE entry_from_terms(pstats, clean_text(split_result[1]),
                          clean_text(split_result[2]), page_number, tag_ranges,
                          image_folder, image_prefix, fs)

\* core.py:476-494: the entry is counted, then filtered or split
process_single_entry(pstats, content, page_number, tag_ranges, image_folder, image_prefix, fs) ==
    IF should_filter_content(content)
    THEN [stats |-> [pstats EXCEPT !.total_processed = @ + 1,
                                   !.filtered_out = @ + 1],
          result |-> << >>]
    ELSE entry_from_split([pstats EXCEPT !.total_processed = @ + 1],
                          split_chinese_english(content), page_number, tag_ranges,
                          image_folder, image_prefix, fs)

(***************************************************************************)
(* TermProcessor._is_real_page_number, core.py:645-681.  pos is the        *)
(* 0-based offset the caller passes.                                       *)
(***************************************************************************)

MinPage == 1
MaxPage == 2000

\* page_num.replace('，', ',').split(',')[0]
RECURSIVE FirstFieldFrom(_, _)
FirstFieldFrom(s, i) ==
    IF i > Len(s) \/ s[i] \in {",", "FWCOMMA"} THEN Slice(s, 1, i - 1)
    ELSE FirstFieldFrom(s, i + 1)

\* int() raises ValueError unless the field is a number
IsNumber(ds) == Len(ds) > 0 /\ \A i \in 1..Len(ds) : IsDigit(ds[i])

\* _is_real_page_number with 200 for the largest page
real_page_up_to_200(line, pos, page_num) ==
    LET first == FirstFieldFrom(page_num, 1)
        before_context == IF pos > 0 THEN Slice(line, 1, pos) ELSE << >>
        after_context ==
            IF pos + Len(page_num) < Len(line)
            THEN Slice(line, pos + Len(page_num) + 1, Len(line))
            ELSE << >>
    IN  /\ IsNumber(first)
        /\ ToInt(first) >= MinPage /\ ToInt(first) <= 200
        /\ Len(before_context) > 0
        /\ before_context[Len(before_context)] = " "
        /\ ~(/\ Len(after_context) > 1
             /\ after_context[1] = "-"
             /\ IsEnglish(after_context[2]))
        /\ Len(strip(before_context)) >= 3

\* _is_real_page_number that does not ask for content in front of the page
real_page_without_content(line, pos, page_num) ==
    LET first == FirstFieldFrom(page_num, 1)
        before_context == IF pos > 0 THEN Slice(line, 1, pos) ELSE << >>
        after_context ==
            IF pos + Len(page_num) < Len(line)
            THEN Slice(line, pos + Len(page_num) + 1, Len(line))
            ELSE << >>
    IN  /\ IsNumber(first)
        /\ ToInt(first) >= MinPage /\ ToInt(first) <= MaxPage
        /\ Len(before_context) > 0
        /\ before_context[Len(before_context)] = " "
        /\ ~(/\ Len(after_context) > 1
             /\ after_context[1] = "-"
             /\ IsEnglish(after_context[2]))

_is_real_page_number(line, pos, page_num) ==
    LET first == FirstFieldFrom(page_num, 1)
        page_int == ToInt(first)
        before_context == IF pos > 0 THEN Slice(line, 1, pos) ELSE << >>
        after_context ==
            IF pos + Len(page_num) < Len(line)
            THEN Slice(line, pos + Len(page_num) + 1, Len(line))
            ELSE << >>
    IN  IF ~IsNumber(first) THEN FALSE
        ELSE IF page_int < MinPage \/ page_int > MaxPage THEN FALSE
        ELSE IF Len(before_context) > 0 /\ before_context[Len(before_context)] = "-"
        THEN FALSE
        ELSE IF Len(before_context) > 0 /\ IsEnglish(before_context[Len(before_context)])
        THEN FALSE
        ELSE IF /\ Len(after_context) > 1
                /\ after_context[1] = "-"
                /\ IsEnglish(after_context[2])
        THEN FALSE
        ELSE IF Len(strip(before_context)) < 3 THEN FALSE
        ELSE IF ~(Len(before_context) > 0 /\ before_context[Len(before_context)] = " ")
        THEN FALSE
        ELSE TRUE

(***************************************************************************)
(* TermProcessor.merge_broken_lines, core.py:555-601                       *)
(***************************************************************************)

\* ^\d+(?:[,，]\s*\d+)*\s*$
page_only_pat ==
    <<Bol, Plus(DigitCls),
      Rep(<<One(Cls({",", "FWCOMMA"})), Star(SpaceCls), Plus(DigitCls)>>),
      Star(SpaceCls), Eol>>

\* ^\s*([A-Z]|中英文名词对照索引)\s*$
ignore_pat ==
    <<Bol, Star(SpaceCls), Open(1),
      Alt(<< <<One(Cls(LatinUpper))>>, Word(IndexHeader) >>),
      Close(1), Star(SpaceCls), Eol>>

\* \s+(\d+)\s*$  (core.py:586 tests the same pattern without the group)
trailing_page_pat ==
    <<Plus(SpaceCls), Open(1), Plus(DigitCls), Close(1), Star(SpaceCls), Eol>>

\* f"{buffer} {line}".strip()
JoinLine(buf, line) == strip(buf \o <<" ">> \o line)

\* which branch of the loop body a raw line takes with this buffer and output
line_branch(buf, merged, raw) ==
    LET line == _normalize(strip(raw))
        page_match == re_search(trailing_page_pat, line)
    IN  IF Len(line) = 0 THEN "blank"
        ELSE IF re_match(page_only_pat, line).ok
        THEN (IF Len(buf) > 0 THEN "page_closes_buffer"
              ELSE IF Len(merged) > 0 THEN "page_joins_previous"
              ELSE "page_dropped")
        ELSE IF re_match(ignore_pat, line).ok THEN "ignored"
        ELSE IF page_match.ok /\ _is_real_page_number(line, page_match.start, page_match.g1)
        THEN "flush"
        ELSE "accumulate"

\* merge_line that makes a new entry of a page-only line met with an empty buffer
merge_line_page_opens_entry(st, raw) ==
    LET line == _normalize(strip(raw))
        branch == line_branch(st.buffer, st.merged_lines, raw)
    IN  CASE branch = "page_closes_buffer" ->
               [buffer |-> << >>,
                merged_lines |-> Append(st.merged_lines, JoinLine(st.buffer, line))]
          [] branch = "page_joins_previous" ->
               [st EXCEPT !.merged_lines = Append(@, line)]
          [] branch = "flush" ->
               [buffer |-> << >>,
                merged_lines |->
                    Append(st.merged_lines,
                           IF Len(st.buffer) > 0 THEN JoinLine(st.buffer, line) ELSE line)]
          [] branch = "accumulate" ->
               [st EXCEPT !.buffer = IF Len(@) > 0 THEN JoinLine(@, line) ELSE line]
          [] OTHER -> st

\* merge_line that puts an orphan page line in front of the previous entry
merge_line_page_before_previous(st, raw) ==
    LET line == _normalize(strip(raw))
        branch == line_branch(st.buffer, st.merged_lines, raw)
        n == Len(st.merged_lines)
    IN  CASE branch = "page_closes_buffer" ->
               [buffer |-> << >>,
                merged_lines |-> Append(st.merged_lines, JoinLine(st.buffer, line))]
          [] branch = "page_joins_previous" ->
               [st EXCEPT !.merged_lines[n] = line \o <<" ">> \o @]
          [] branch = "flush" ->
               [buffer |-> << >>,
                merged_lines |->
                    Append(st.merged_lines,
                           IF Len(st.buffer) > 0 THEN JoinLine(st.buffer, line) ELSE line)]
          [] branch = "accumulate" ->
               [st EXCEPT !.buffer = IF Len(@) > 0 THEN JoinLine(@, line) ELSE line]
          [] OTHER -> st

\* merge_line that closes the entry in the buffer at a blank or ignorable line
merge_line_skipped_line_flushes(st, raw) ==
    LET line == _normalize(strip(raw))
        branch == line_branch(st.buffer, st.merged_lines, raw)
        n == Len(st.merged_lines)
    IN  CASE branch = "page_closes_buffer" ->
               [buffer |-> << >>,
                merged_lines |-> Append(st.merged_lines, JoinLine(st.buffer, line))]
          [] branch = "page_joins_previous" ->
               [st EXCEPT !.merged_lines[n] = @ \o <<" ">> \o line]
          [] branch = "flush" ->
               [buffer |-> << >>,
                merged_lines |->
                    Append(st.merged_lines,
                           IF Len(st.buffer) > 0 THEN JoinLine(st.buffer, line) ELSE line)]
          [] branch = "accumulate" ->
               [st EXCEPT !.buffer = IF Len(@) > 0 THEN JoinLine(@, line) ELSE line]
          [] branch \in {"blank", "ignored"} /\ Len(st.buffer) > 0 ->
               [buffer |-> << >>, merged_lines |-> Append(st.merged_lines, st.buffer)]
          [] OTHER -> st

\* one pass of the loop body, core.py:565-595, on [buffer, merged_lines]
merge_line(st, raw) ==
    LET line == _normalize(strip(raw))
        branch == line_branch(st.buffer, st.merged_lines, raw)
        n == Len(st.merged_lines)
    IN  CASE branch = "page_closes_buffer" ->
               [buffer |-> << >>,
                merged_lines |-> Append(st.merged_lines, JoinLine(st.buffer, line))]
          [] branch = "page_joins_previous" ->
               [st EXCEPT !.merged_lines[n] = @ \o <<" ">> \o line]
          [] branch = "flush" ->
               [buffer |-> << >>,
                merged_lines |->
                    Append(st.merged_lines,
                           IF Len(st.buffer) > 0 THEN JoinLine(st.buffer, line) ELSE line)]
          [] branch = "accumulate" ->
               [st EXCEPT !.buffer = IF Len(@) > 0 THEN JoinLine(@, line) ELSE line]
          [] OTHER -> st

\* the end of merge_broken_lines without the last entry
merge_end_buffer_lost(st) == st.merged_lines

\* core.py:597-599: what is left in the buffer is the last entry
merge_end(st) ==
    IF Len(st.buffer) > 0 THEN Append(st.merged_lines, st.buffer) ELSE st.merged_lines

RECURSIVE merge_from(_, _, _)
merge_from(st, lines, i) ==
    IF i > Len(lines) THEN merge_end(st)
    ELSE merge_from(merge_line(st, lines[i]), lines, i + 1)

merge_broken_lines(lines) ==
    merge_from([buffer |-> << >>, merged_lines |-> << >>], lines, 1)

(***************************************************************************)
(* TermProcessor.split_entries_by_page, core.py:603-643                    *)
(***************************************************************************)

\* (?<!\S)(\d+(?:,\s*\d+)*)(?=\s|$)
boundary_pattern ==
    <<NotAfter(NonSpaceCls), Open(1), Plus(DigitCls),
      Rep(<<Lit(","), Star(SpaceCls), Plus(DigitCls)>>), Close(1),
      Ahead(<< <<One(SpaceCls)>>, <<Eol>> >>)>>

\* core.py:618-624: the matches that pass the page-number check
potential_pages(line_clean) ==
    SelectSeq(re_finditer(boundary_pattern, line_clean),
              LAMBDA m : _is_real_page_number(line_clean, m.start, m.g1))

\* entries_from that takes every content from the start of the line
RECURSIVE entries_from_line_start(_, _, _, _)
entries_from_line_start(line_clean, pages, k, last_pos) ==
    IF k > Len(pages) THEN << >>
    ELSE LET content == strip(Slice(line_clean, 1, pages[k].start))
         IN  (IF Len(content) > 0
              THEN << [content |-> content, page_number |-> pages[k].g1] >>
              ELSE << >>)
             \o entries_from_line_start(line_clean, pages, k + 1, pages[k].end)

\* core.py:631-641 from boundary k on, last_pos the 0-based end of the previous one
RECURSIVE entries_from(_, _, _, _)
entries_from(line_clean, pages, k, last_pos) ==
    IF k > Len(pages) THEN << >>
    ELSE LET content == strip(Slice(line_clean, last_pos + 1, pages[k].start))
         IN  (IF Len(content) > 0
              THEN << [content |-> content, page_number |-> pages[k].g1] >>
              ELSE << >>)
             \o entries_from(line_clean, pages, k + 1, pages[k].end)

\* entries_of_line that makes a candidate with no page of a line with no boundary
line_kept_whole(line) ==
    LET line_clean == strip(line)
    IN  IF Len(line_clean) = 0 THEN << >>
        ELSE IF Len(potential_pages(line_clean)) = 0
        THEN << [content |-> line_clean, page_number |-> << >>] >>
        ELSE entries_from(line_clean, potential_pages(line_clean), 1, 0)

\* the entries one merged line yields
entries_of_line(line) ==
    LET line_clean == strip(line)
    IN  IF Len(line_clean) = 0 THEN << >>
        ELSE entries_from(line_clean, potential_pages(line_clean), 1, 0)

RECURSIVE split_lines_from(_, _)
split_lines_from(lines, i) ==
    IF i > Len(lines) THEN << >>
    ELSE entries_of_line(lines[i]) \o split_lines_from(lines, i + 1)

split_entries_by_page(lines) == split_lines_from(lines, 1)

(***************************************************************************)
(* extract_and_tag_terms, core.py:683-777: the reason it reports for an    *)
(* entry that gave no record (core.py:743-753), and its stable sort.       *)
(***************************************************************************)

\* the reasons of core.py:744-751
ReasonFiltered == <<"nei", "rong", "bei", "guo", "lv">>                \* 内容被过滤
ReasonNoChinese ==
    <<"nei", "rong", "zhong", "bu", "han", "zhong", "wen", "zi", "fu">>  \* 内容中不含中文字符
ReasonSplitFailed == <<"zhong", "ying", "wen", "fen", "li", "shi", "bai">>  \* 中英文分离失败
ReasonOther == <<"qi", "ta", "yuan", "yin">>                           \* 其他原因

\* the reason of a description when the filter is not asked
reason_never_filtered(content) ==
    IF ~re_search(<<One(chinese_pattern)>>, content).ok THEN ReasonNoChinese
    ELSE IF split_chinese_english(content) = None THEN ReasonSplitFailed
    ELSE ReasonOther

\* core.py:744-751
failure_reason(content) ==
    IF should_filter_content(content) THEN ReasonFiltered
    ELSE IF ~re_search(<<One(chinese_pattern)>>, content).ok THEN ReasonNoChinese
    ELSE IF split_chinese_english(content) = None THEN ReasonSplitFailed
    ELSE ReasonOther

\* f"[{reason}] > {content} {page}", core.py:753
failure_description(content, page) ==
    <<"[">> \o failure_reason(content) \o <<"]", " ", ">", " ">>
        \o content \o <<" ">> \o page

\* get_sort_key, core.py:756-758
get_sort_key(item) ==
    LET m == first_page_match(item.page)
    IN  IF m.ok THEN ToInt(m.g1) ELSE 0

\* an insertion that puts item in front of the items of the same key
RECURSIVE insert_before_equal(_, _)
insert_before_equal(sorted, item) ==
    IF Len(sorted) = 0 THEN <<item>>
    ELSE IF get_sort_key(sorted[Len(sorted)]) < get_sort_key(item)
    THEN Append(sorted, item)
    ELSE Append(insert_before_equal(SubSeq(sorted, 1, Len(sorted) - 1), item),
                sorted[Len(sorted)])

\* list.sort(key=get_sort_key): item goes behind every item whose key is not larger
RECURSIVE InsertSorted(_, _)
InsertSorted(sorted, item) ==
    IF Len(sorted) = 0 THEN <<item>>
    ELSE IF get_sort_key(sorted[Len(sorted)]) <= get_sort_key(item)
    THEN Append(sorted, item)
    ELSE Append(InsertSorted(SubSeq(sorted, 1, Len(sorted) - 1), item), sorted[Len(sorted)])

RECURSIVE SortFrom(_, _, _)
SortFrom(items, i, sorted) ==
    IF i > Len(items) THEN sorted
    ELSE SortFrom(items, i + 1, InsertSorted(sorted, items[i]))

sort_by_page(items) == SortFrom(items, 1, << >>)

(***************************************************************************)
(* The state of each component while a specification does not use it.      *)
(***************************************************************************)

NormalizerIdle == text = << >> /\ norm_trace = << >>

SplitterIdle == method_idx = 0 /\ attempts = << >> /\ split_return = << >>

ProcessorIdle ==
    /\ last_content = << >> /\ last_page = << >> /\ last_result = << >>
    /\ last_tag = "" /\ stats = ProcessingStats

NoConfig == [tag_ranges |-> << >>, image_folder |-> "", image_prefix |-> << >>]
EmptyDisk == [folders |-> {}, files |-> {}]

ConfigIdle == config = NoConfig /\ disk = EmptyDisk

MergerIdle ==
    /\ raw_lines = << >> /\ line_idx = 0 /\ buffer = << >>
    /\ merged_lines = << >> /\ branches = << >>

NoFile == [status |-> "missing", lines |-> << >>]

PipelineIdle ==
    /\ pc = "idle" /\ terms_file = NoFile /\ page_boundaries = << >>
    /\ entries = << >> /\ entry_idx = 0
    /\ successful_extractions = << >> /\ failed_extractions = << >>
    /\ returned = << >>

ValidatorIdle == pair = << >> /\ verdict = << >>

BatchIdle ==
    book_folders = << >> /\ book_idx = 0 /\ report = << >> /\ book_returns = << >>

OrchestratorIdle ==
    /\ output_file = << >> /\ cwd = "" /\ shelf = << >> /\ runs = << >>
    /\ ValidatorIdle /\ BatchIdle

validator_vars == <<pair, verdict>>
batch_vars == <<book_folders, book_idx, report, book_returns>>
orchestrator_vars == <<output_file, cwd, shelf, runs, validator_vars, batch_vars>>
normalizer_vars == <<text, norm_trace>>
splitter_vars == <<method_idx, attempts, split_return>>
processor_vars == <<last_content, last_page, last_result, last_tag, stats>>
config_vars == <<config, disk>>
merger_vars == <<raw_lines, line_idx, buffer, merged_lines, branches>>
pipeline_vars ==
    <<pc, terms_file, page_boundaries, entries, entry_idx, successful_extractions,
      failed_extractions, returned>>

(***************************************************************************)
(* Strings built from pieces: the inputs of the specifications.            *)
(***************************************************************************)

\* the concatenations of at most n pieces of P
RECURSIVE Concats(_, _)
Concats(P, n) ==
    IF n = 0 THEN {<< >>}
    ELSE LET shorter == Concats(P, n - 1)
         IN  shorter \cup {s \o q : s \in shorter, q \in P}

\* the sequences of at most n elements of S
RECURSIVE SeqsUpTo(_, _)
SeqsUpTo(S, n) ==
    IF n = 0 THEN {<< >>}
    ELSE LET shorter == SeqsUpTo(S, n - 1)
         IN  shorter \cup {Append(s, x) : s \in shorter, x \in S}

(***************************************************************************)
(* SpecNormalize: a string, normalized again and again.                    *)
(***************************************************************************)

MaxNormLen == 3
MaxNormCalls == 2

NormAlphabet ==
    {"xi", "a", ",", " ", "\t", "IDSP", "HAIR",
     "FWCOMMA", "FWSTOP", "FWSEMI", "FWCOLON", "IDSTOP"}

InitNormalize ==
    /\ text \in Concats({<<c>> : c \in NormAlphabet}, MaxNormLen)
    /\ norm_trace = << >>
    /\ last_content = << >>
    /\ SplitterIdle /\ ProcessorIdle /\ ConfigIdle /\ MergerIdle /\ PipelineIdle
    /\ OrchestratorIdle

\* text = self._normalize(text), on what the previous application returned
Normalize ==
    /\ Len(norm_trace) < MaxNormCalls
    /\ norm_trace' =
           Append(norm_trace,
                  _normalize(IF Len(norm_trace) = 0 THEN text
                             ELSE norm_trace[Len(norm_trace)]))
    /\ UNCHANGED <<orchestrator_vars,
                   text, splitter_vars, processor_vars, config_vars, merger_vars,
                   pipeline_vars>>

SpecNormalize == InitNormalize /\ [][Normalize]_vars

FullWidthOrTab == {"FWCOMMA", "FWSTOP", "FWSEMI", "FWCOLON", "\t"}

\* C9: _normalize is idempotent, _normalize(_normalize(x)) = _normalize(x), and
\* after one application no full-width comma, period, semicolon or colon and no
\* tab character remains.
NormalizeIdempotent ==
    /\ Len(norm_trace) >= 2 => norm_trace[2] = norm_trace[1]
    /\ Len(norm_trace) >= 1 =>
           \A i \in 1..Len(norm_trace[1]) : norm_trace[1][i] \notin FullWidthOrTab

\* a string with a full-width period, a tab and an ideographic space, normalized twice
NormalizeTwiceReached ==
    /\ Len(norm_trace) = 2
    /\ {"FWSTOP", "\t", "IDSP"} \subseteq {text[i] : i \in 1..Len(text)}
    /\ norm_trace[1] # text

(***************************************************************************)
(* SpecSplit: split_chinese_english on one content, a method at a time.    *)
(***************************************************************************)

MaxPieces == 4
MaxRun == 2
MaxWords == 2

SplitPieces ==
    { <<"xi">>, <<" ">>, <<"a", "b">>, <<"G">>, <<"-", "7">>, <<"7">>, <<",">>, <<"(">> }

\* a logographic run
Runs == Concats({<<"xi">>, <<"bao">>}, MaxRun) \ {<< >>}

\* alphabetic words, separated by single spaces
RECURSIVE WordLists(_)
WordLists(n) ==
    IF n = 1 THEN {<<"a", "b">>, <<"G">>, <<"c", "e", "l", "l">>, <<"D", "N", "A">>}
    ELSE WordLists(n - 1) \cup
         {ws \o <<" ">> \o w : ws \in WordLists(n - 1), w \in WordLists(1)}

\* '<logographic run> <alphabetic words>'
BilingualContents == {run \o <<" ">> \o ws : run \in Runs, ws \in WordLists(MaxWords)}

\* '<logographic run>-<digits> <alphabetic term>'
SuffixedContents ==
    {run \o <<"-">> \o ds \o <<" ">> \o term :
        run \in Runs,
        ds \in {<<"7">>, <<"1", "2">>},
        term \in {<<"G", "A", "D", "-", "7">>, <<"G", "A", "D">>, <<"a">>,
                  <<"a", "b", " ", "7">>, <<"alpha", "b">>, <<"G", "-", "7", "-", "7">>}}

\* contents with a parenthesised alphabetic term, or with the alphabetic text first
ParenContents ==
    { <<"xi", "bao", " ", "(", "c", "e", "l", "l", ")", " ", "xi">>,
      <<"xi", "(", "a", "b", ")", "xi">>,
      <<"xi", "(", "a", "b", ")">>,
      <<"xi", " ", "(", " ", "a", "b", " ", ")", " ", "xi", "bao">>,
      <<"c", "e", "l", "l", " ", "xi", "bao", " ", "(", "a", "b", ")", "xi">>,
      <<"xi", "(", "a", "b", ")", "xi", " ", "a">>,
      <<"xi", "(", "G", ")", "xi">>,
      <<"c", "e", "l", "l", " ", "xi", "bao">>,
      <<"xi", " ", "a", "b", " ", "xi">> }

SplitContents ==
    Concats(SplitPieces, MaxPieces) \cup BilingualContents \cup SuffixedContents
    \cup ParenContents

InitSplit ==
    /\ last_content \in SplitContents
    /\ method_idx = 1 /\ attempts = << >> /\ split_return = << >>
    /\ last_page = << >> /\ last_result = << >> /\ last_tag = ""
    /\ stats = ProcessingStats
    /\ NormalizerIdle /\ ConfigIdle /\ MergerIdle /\ PipelineIdle
    /\ OrchestratorIdle

\* one pass of the loop of core.py:426-430
TryMethod ==
    /\ split_return = << >>
    /\ method_idx \in 1..NumMethods
    /\ LET r == method(method_idx, last_content)
       IN  /\ attempts' = Append(attempts, r)
           /\ IF accepted(r)
              THEN split_return' = <<r>> /\ method_idx' = method_idx
              ELSE split_return' = << >> /\ method_idx' = method_idx + 1
    /\ UNCHANGED <<orchestrator_vars,
                   last_content, last_page, last_result, last_tag, stats,
                   normalizer_vars, config_vars, merger_vars, pipeline_vars>>

\* core.py:432: no method gave an accepted result
ReturnNone ==
    /\ split_return = << >>
    /\ method_idx = NumMethods + 1
    /\ split_return' = <<None>>
    /\ UNCHANGED <<orchestrator_vars,
                   last_content, method_idx, attempts, last_page, last_result,
                   last_tag, stats, normalizer_vars, config_vars, merger_vars,
                   pipeline_vars>>

SpecSplit == InitSplit /\ [][TryMethod \/ ReturnNone]_vars

IsRun(s) == Len(s) >= 1 /\ \A i \in 1..Len(s) : IsChinese(s[i])

IsLatin(c) == c \in LatinUpper \cup LatinLower

\* Latin letters separated by single spaces, at least 2 letters, no digits
IsWords(s) ==
    /\ Len(s) >= 1
    /\ \A i \in 1..Len(s) : IsLatin(s[i]) \/ s[i] = " "
    /\ s[1] # " " /\ s[Len(s)] # " "
    /\ \A i \in 1..(Len(s) - 1) : ~(s[i] = " " /\ s[i + 1] = " ")
    /\ Count(LatinUpper \cup LatinLower, s) >= 2

\* C5: for a content made of a run of logographic characters, one space and
\* alphabetic words (Latin letters separated by single spaces, at least 2
\* letters, no digits), split_chinese_english returns exactly
\* (the logographic run, the alphabetic words).
SplitsWellFormedContent ==
    \A k \in 1..Len(last_content) :
        ( /\ split_return # << >>
          /\ last_content[k] = " "
          /\ IsRun(Slice(last_content, 1, k - 1))
          /\ IsWords(Slice(last_content, k + 1, Len(last_content))) )
        => split_return =
               << << Slice(last_content, 1, k - 1),
                     Slice(last_content, k + 1, Len(last_content)) >> >>

\* 'xi bao' + ' ' + 'cell DNA' was split
WellFormedContentSplit ==
    /\ last_content = <<"xi", "bao", " ", "c", "e", "l", "l", " ", "D", "N", "A">>
    /\ split_return = << << <<"xi", "bao">>, <<"c", "e", "l", "l", " ", "D", "N", "A">> >> >>

IsDigits(s) == Len(s) >= 1 /\ \A i \in 1..Len(s) : IsDigit(s[i])

\* content is run + '-' + digits + ' ' + term at the positions h (the hyphen)
\* and k (the space); the term starts with a letter and ends with no whitespace
IsSuffixedAt(c, h, k) ==
    /\ 1 < h /\ h + 1 < k /\ k < Len(c)
    /\ c[h] = "-" /\ c[k] = " "
    /\ IsRun(Slice(c, 1, h - 1))
    /\ IsDigits(Slice(c, h + 1, k - 1))
    /\ IsEnglish(c[k + 1])
    /\ ~IsSpace(c[Len(c)])

\* C6: for content '<logographic run>-<digits> <alphabetic term>' whose term
\* starts with a letter and passes enhanced validation, the numeric-suffix
\* strategy (the first method) returns ('<run>-<digits>', term): the suffix
\* stays attached, the split is never placed before it.
NumericSuffixKept ==
    \A h, k \in 1..Len(last_content) :
        ( /\ Len(attempts) >= 1
          /\ IsSuffixedAt(last_content, h, k)
          /\ validate_split_result_enhanced(Slice(last_content, 1, k - 1),
                                            Slice(last_content, k + 1, Len(last_content))) )
        => attempts[1] = << Slice(last_content, 1, k - 1),
                            Slice(last_content, k + 1, Len(last_content)) >>

\* 'xi bao-7 GAD-7' went through the numeric-suffix strategy
NumericSuffixTried ==
    /\ last_content = <<"xi", "bao", "-", "7", " ", "G", "A", "D", "-", "7">>
    /\ Len(attempts) >= 1
    /\ attempts[1] = << <<"xi", "bao", "-", "7">>, <<"G", "A", "D", "-", "7">> >>

(***************************************************************************)
(* SpecTag: get_tag_for_page on a list of ranges.                          *)
(***************************************************************************)

MaxRanges == 2

TagRanges == {<<1, 50, "A">>, <<51, 100, "B">>, <<40, 60, "C">>, <<50, 50, "D">>}

TagPages ==
    {<<"5", "0">>, <<"5", "1">>, <<"2", "0", "0">>, <<"1">>, <<"0">>, << >>,
     <<"a", "b">>, <<"p", "4", "5">>, <<"5", "0", ",", "5", "1">>, <<"1", "0", "0">>}

InitTag ==
    /\ config \in {[tag_ranges |-> rs, image_folder |-> "", image_prefix |-> << >>] :
                      rs \in SeqsUpTo(TagRanges, MaxRanges)}
    /\ disk = EmptyDisk
    /\ ProcessorIdle /\ NormalizerIdle /\ SplitterIdle /\ MergerIdle /\ PipelineIdle
    /\ OrchestratorIdle

\* processor.get_tag_for_page(page_number, tag_ranges)
GetTagForPage ==
    \E page_number \in TagPages :
        /\ last_page' = page_number
        /\ last_tag' = get_tag_for_page(page_number, config.tag_ranges)
        /\ UNCHANGED <<orchestrator_vars,
                       last_content, last_result, stats, normalizer_vars,
                       splitter_vars, config_vars, merger_vars, pipeline_vars>>

SpecTag == InitTag /\ [][GetTagForPage]_vars

HasDigit(s) == \E i \in 1..Len(s) : IsDigit(s[i])

\* the first maximal run of digits of s
FirstDigitGroup(s) ==
    LET from == CHOOSE i \in 1..Len(s) :
                    IsDigit(s[i]) /\ \A j \in 1..(i - 1) : ~IsDigit(s[j])
        to == CHOOSE i \in from..Len(s) :
                    /\ \A j \in from..i : IsDigit(s[j])
                    /\ (i = Len(s) \/ ~IsDigit(s[i + 1]))
    IN  SubSeq(s, from, to)

\* the ranges of rs whose inclusive interval contains the first digit group of page
RangesContaining(rs, page) ==
    IF ~HasDigit(page) THEN {}
    ELSE {k \in 1..Len(rs) : /\ rs[k][1] <= ToInt(FirstDigitGroup(page))
                             /\ ToInt(FirstDigitGroup(page)) <= rs[k][2]}

\* C7: get_tag_for_page returns the label of the first range, in list order,
\* whose inclusive interval [start, end] contains the first digit group of
\* page_number, and the unknown-chapter sentinel when no range contains the
\* page or page_number has no digit.
TagOfFirstContainingRange ==
    last_tag # "" =>
        LET hits == RangesContaining(config.tag_ranges, last_page)
        IN  IF hits = {} THEN last_tag = UnknownChapter
            ELSE last_tag =
                     config.tag_ranges[CHOOSE k \in hits : \A j \in hits : k <= j][3]

\* page 50 with the overlapping ranges (1, 50, A) and (40, 60, C): A wins
OverlappingRangesTagged ==
    /\ config.tag_ranges = << <<1, 50, "A">>, <<40, 60, "C">> >>
    /\ last_page = <<"5", "0">>
    /\ last_tag = "A"

(***************************************************************************)
(* Spec: calls of process_single_entry on one TermProcessor.               *)
(***************************************************************************)

MaxCalls == 3
MaxEntryPieces == 3

ImagePrefix == <<"t">>
ImageFolder == "images"

Chapters == << <<1, 50, "A">>, <<51, 100, "B">> >>

Configured ==
    [tag_ranges |-> Chapters, image_folder |-> ImageFolder, image_prefix |-> ImagePrefix]

\* contents the filter discards, and headers followed by a term
HeaderContents ==
    {ReferenceHeader, ReadingHeader, IndexHeader, <<"A">>, <<"1", "2">>, <<"-", "-">>,
     ReferenceHeader \o <<" ">> \o <<"a", "b">>}

EntryContents ==
    Concats(SplitPieces, MaxEntryPieces) \cup BilingualContents \cup SuffixedContents
    \cup HeaderContents

\* what a later call is made on: a term, a header, a line with no term
LaterContents ==
    {<<"xi", "bao", " ", "c", "e", "l", "l">>, ReferenceHeader, <<"xi", "bao">>,
     <<"a", "b">>}

EntryPages == {<<"7">>, <<"7", "7", ",", "7", "8">>}
LaterPages == {<<"5", "1">>}

InitEntries ==
    /\ config = Configured
    /\ disk = [folders |-> {ImageFolder},
                files |-> {<<"t", "-", "0", "0", "0", "7">> \o Png}]
    /\ ProcessorIdle /\ NormalizerIdle /\ SplitterIdle /\ MergerIdle /\ PipelineIdle
    /\ OrchestratorIdle

\* processor.process_single_entry(content, page_number, tag_ranges, image_folder,
\* image_prefix)
ProcessSingleEntry(content, page_number) ==
    /\ stats.total_processed < MaxCalls
    /\ LET r == process_single_entry(stats, content, page_number, config.tag_ranges,
                                     config.image_folder, config.image_prefix, disk)
       IN  stats' = r.stats /\ last_result' = r.result
    /\ last_content' = content
    /\ last_page' = page_number
    /\ UNCHANGED <<orchestrator_vars,
                   last_tag, normalizer_vars, splitter_vars, config_vars, merger_vars,
                   pipeline_vars>>

NextEntry ==
    \E content \in (IF stats.total_processed = 0 THEN EntryContents ELSE LaterContents),
       page_number \in (IF stats.total_processed = 0 THEN EntryPages ELSE LaterPages) :
        ProcessSingleEntry(content, page_number)

Spec == InitEntries /\ [][NextEntry]_vars

\* C1: after every call of process_single_entry, in any sequence of calls,
\* stats.total_processed = stats.successful + stats.failed + stats.filtered_out,
\* and each call increments exactly one of successful, failed, filtered_out.
StatsAccounting ==
    /\ [](stats.total_processed = stats.successful + stats.failed + stats.filtered_out)
    /\ [][ /\ stats'.total_processed = stats.total_processed + 1
           /\ \/ /\ stats'.successful = stats.successful + 1
                 /\ stats'.failed = stats.failed
                 /\ stats'.filtered_out = stats.filtered_out
              \/ /\ stats'.successful = stats.successful
                 /\ stats'.failed = stats.failed + 1
                 /\ stats'.filtered_out = stats.filtered_out
              \/ /\ stats'.successful = stats.successful
                 /\ stats'.failed = stats.failed
                 /\ stats'.filtered_out = stats.filtered_out + 1 ]_vars

\* three calls: one gave a record, one failed, one was filtered
EveryOutcomeCounted ==
    /\ stats.total_processed = 3
    /\ stats.successful = 1 /\ stats.failed = 1 /\ stats.filtered_out = 1

\* C10: every Record process_single_entry returns has a non-empty logographic
\* term with at least one logographic character and a non-empty alphabetic
\* term with at least one Latin or Greek letter.
RecordTermsInTheirScripts ==
    Len(last_result) > 0 =>
        /\ Len(last_result[1].chinese) > 0
        /\ \E i \in 1..Len(last_result[1].chinese) : IsChinese(last_result[1].chinese[i])
        /\ Len(last_result[1].english) > 0
        /\ \E i \in 1..Len(last_result[1].english) : IsEnglish(last_result[1].english[i])

\* a record whose content had a numeric suffix and an abbreviation
RecordReturned ==
    /\ Len(last_result) > 0
    /\ last_content = <<"xi", "-", "7", " ", "G", "A", "D">>
    /\ last_result[1].chinese = <<"xi", "-", "7">>
    /\ last_result[1].english = <<"G", "A", "D">>

(***************************************************************************)
(* SpecMedia: process_single_entry with any files in the image folder.     *)
(***************************************************************************)

MaxFiles == 2

MediaPages == {<<"4", "2">>, <<"1", "2", "3", "4">>, <<"a", "b">>}

\* the file names the resolver may look for, and one it never looks for
MediaFiles ==
    UNION {{image_filename_candidates(ImagePrefix, n)[k] :
               k \in 1..Len(image_filename_candidates(ImagePrefix, n))} :
           n \in {42, 1234}}
    \cup {<<"t", "-", "0", "0", "4", "3">> \o Png}

InitMedia ==
    /\ config = Configured
    /\ disk \in {[folders |-> fo, files |-> fi] :
                    fo \in {{}, {ImageFolder}},
                    fi \in {x \in SUBSET MediaFiles : Cardinality(x) <= MaxFiles}}
    /\ ProcessorIdle /\ NormalizerIdle /\ SplitterIdle /\ MergerIdle /\ PipelineIdle
    /\ OrchestratorIdle

NextMedia ==
    \E page_number \in MediaPages :
        ProcessSingleEntry(<<"xi", "bao", " ", "c", "e", "l", "l">>, page_number)

SpecMedia == InitMedia /\ [][NextMedia]_vars

\* '<prefix><sep><page padded to width>.png'; width 0 is no padding
MediaName(sep, width, n) == ImagePrefix \o sep \o ZeroPad(Decimal(n), width) \o Png

\* the six forms with 4-digit or no padding, and the three 3-digit forms
SixForms(n) ==
    {MediaName(sep, w, n) : sep \in {<<"-">>, << >>, <<"_">>}, w \in {4, 0}}
ThreeDigitForms(n) ==
    {MediaName(sep, 3, n) : sep \in {<<"-">>, << >>, <<"_">>}}

\* C8: for any set of files in the media directory the resolver returns a
\* reference to the existing candidate that is earliest in its priority list:
\* '<prefix>-<4-digit page>.png' wins whenever it exists, a 3-digit form is
\* returned only when page < 1000 and none of the six 4-digit or unpadded forms
\* exists, and no reference is returned when no candidate exists.
EarliestCandidateReturned ==
    (Len(last_result) > 0 /\ HasDigit(last_page) /\ ImageFolder \in disk.folders) =>
        LET n == ToInt(FirstDigitGroup(last_page))
            image == last_result[1].image
            candidates == image_filename_candidates(ImagePrefix, n)
            existing == {k \in 1..Len(candidates) : candidates[k] \in disk.files}
        IN  /\ IF existing = {} THEN image = << >>
               ELSE image = ImgTag(candidates[CHOOSE k \in existing :
                                                 \A j \in existing : k <= j])
            /\ MediaName(<<"-">>, 4, n) \in disk.files
                   => image = ImgTag(MediaName(<<"-">>, 4, n))
            /\ \A f \in ThreeDigitForms(n) \ SixForms(n) :
                   image = ImgTag(f) => n < 1000 /\ SixForms(n) \cap disk.files = {}
            /\ (SixForms(n) \cap disk.files = {} /\ n >= 1000) => image = << >>
            /\ (SixForms(n) \cap disk.files # {}) =>
                   \E f \in SixForms(n) \cap disk.files : image = ImgTag(f)

\* t-0042.png and t_0042.png both exist and page 42 refers to t-0042.png
HyphenFormWins ==
    /\ Len(last_result) > 0
    /\ last_page = <<"4", "2">>
    /\ disk.files = {MediaName(<<"-">>, 4, 42), MediaName(<<"_">>, 4, 42)}
    /\ last_result[1].image = ImgTag(MediaName(<<"-">>, 4, 42))

(***************************************************************************)
(* SpecMerge: merge_broken_lines, one raw line at a time.                  *)
(***************************************************************************)

MaxLines == 3

MergeLines ==
    { <<"xi", "bao", " ", "a", "b", " ", "7", "7">>,
      <<"xi", "bao">>,
      <<"a", "b", " ", "7">>,
      <<"7", "7">>,
      <<"7", "FWCOMMA", " ", "8", "\n">>,
      <<"A">>,
      <<" ", "B", "\n">>,
      IndexHeader,
      <<"xi", "\t", "a", "b", "\n">>,
      <<"\n">> }

InitMerge ==
    /\ raw_lines \in SeqsUpTo(MergeLines, MaxLines)
    /\ line_idx = 1
    /\ buffer = << >> /\ merged_lines = << >> /\ branches = << >>
    /\ pc = "merging"
    /\ terms_file = NoFile /\ page_boundaries = << >> /\ entries = << >> /\ entry_idx = 0
    /\ successful_extractions = << >> /\ failed_extractions = << >> /\ returned = << >>
    /\ NormalizerIdle /\ SplitterIdle /\ ProcessorIdle /\ ConfigIdle
    /\ OrchestratorIdle

\* one pass of the loop of core.py:563-595
MergeLine ==
    /\ pc = "merging"
    /\ line_idx <= Len(raw_lines)
    /\ branches' = Append(branches, line_branch(buffer, merged_lines, raw_lines[line_idx]))
    /\ LET st == merge_line([buffer |-> buffer, merged_lines |-> merged_lines],
                            raw_lines[line_idx])
       IN  buffer' = st.buffer /\ merged_lines' = st.merged_lines
    /\ line_idx' = line_idx + 1
    /\ UNCHANGED <<orchestrator_vars,
                   raw_lines, pc, terms_file, page_boundaries, entries, entry_idx,
                   successful_extractions, failed_extractions, returned,
                   normalizer_vars, splitter_vars, processor_vars, config_vars>>

\* core.py:597-601: the loop is over, the buffer is flushed
MergeEnd ==
    /\ pc = "merging"
    /\ line_idx > Len(raw_lines)
    /\ merged_lines' = merge_end([buffer |-> buffer, merged_lines |-> merged_lines])
    /\ pc' = "merged"
    /\ UNCHANGED <<orchestrator_vars,
                   raw_lines, line_idx, buffer, branches, terms_file, page_boundaries,
                   entries, entry_idx, successful_extractions, failed_extractions,
                   returned, normalizer_vars, splitter_vars, processor_vars,
                   config_vars>>

SpecMerge == InitMerge /\ [][MergeLine \/ MergeEnd]_vars

\* the number of non-whitespace characters of the strings of a list
RECURSIVE NonSpaceCount(_)
NonSpaceCount(lines) ==
    IF Len(lines) = 0 THEN 0
    ELSE Len(SelectSeq(Head(lines), LAMBDA c : ~IsSpace(c))) + NonSpaceCount(Tail(lines))

IsBlankLine(line) == \A i \in 1..Len(line) : IsSpace(line[i])

\* the line without the whitespace around it
Trimmed(line) == SelectSeq(line, LAMBDA c : ~IsSpace(c))

\* an ignorable header line: a lone uppercase Latin letter or the index header
IsIgnorableLine(line) ==
    \/ (Len(Trimmed(line)) = 1 /\ Trimmed(line)[1] \in LatinUpper)
    \/ strip(line) = IndexHeader

\* a page-only line: digit groups separated by commas
IsPageOnlyLine(line) ==
    /\ Len(Trimmed(line)) > 0
    /\ \A i \in 1..Len(Trimmed(line)) :
           IsDigit(Trimmed(line)[i]) \/ Trimmed(line)[i] \in {",", "FWCOMMA"}
    /\ IsDigit(Trimmed(line)[1])
    /\ IsDigit(Trimmed(line)[Len(Trimmed(line))])
    /\ \A i \in 1..(Len(Trimmed(line)) - 1) :
           ~(~IsDigit(Trimmed(line)[i]) /\ ~IsDigit(Trimmed(line)[i + 1]))

\* line i is a page-only line that arrives before any entry has begun
IsEarlyPageLine(lines, i) ==
    /\ IsPageOnlyLine(lines[i])
    /\ \A j \in 1..(i - 1) : IsIgnorableLine(lines[j]) \/ IsPageOnlyLine(lines[j])

\* the lines that are neither ignorable nor early page-only lines
RECURSIVE KeptFrom(_, _)
KeptFrom(lines, i) ==
    IF i > Len(lines) THEN << >>
    ELSE (IF IsIgnorableLine(lines[i]) \/ IsEarlyPageLine(lines, i) THEN << >>
          ELSE <<lines[i]>>) \o KeptFrom(lines, i + 1)

NoBlankLines == \A i \in 1..Len(raw_lines) : ~IsBlankLine(raw_lines[i])

\* C2 as stated: for every input with no blank lines the non-whitespace
\* characters of the merged output are as many as those of all input lines,
\* ignorable header lines and early page-only lines included.
MergeConservesEveryLine ==
    (pc = "merged" /\ NoBlankLines) =>
        NonSpaceCount(merged_lines) = NonSpaceCount(raw_lines)

\* C2: for every input with no blank lines the non-whitespace characters of the
\* merged output are as many as those of the input lines that are neither
\* ignorable header lines nor page-only lines arriving before any entry: these
\* the merger discards, every other line it joins into an entry.
MergeConservesKeptLines ==
    (pc = "merged" /\ NoBlankLines) =>
        NonSpaceCount(merged_lines) = NonSpaceCount(KeptFrom(raw_lines, 1))

\* a term broken over two lines, its page on a third, merged into one entry
BrokenEntryMerged ==
    /\ pc = "merged"
    /\ raw_lines = << <<"xi", "bao">>, <<"a", "b", " ", "7">>, <<"7", "7">> >>
    /\ merged_lines = << <<"xi", "bao", " ", "a", "b", " ", "7", " ", "7", "7">> >>

(***************************************************************************)
(* SpecPage: split_entries_by_page on one merged line.                     *)
(***************************************************************************)

MaxPagePieces == 4

PagePieces ==
    { <<"xi">>, <<"G">>, <<"-">>, <<"7">>, <<" ">>, <<"7", "7">>, <<",">>,
      <<"2", "0", "0", "1">>, <<"\t">> }

\* '<term>-<digits> <page>'
SuffixedLines ==
    {term \o <<"-">> \o ds \o <<" ">> \o page :
        term \in {<<"xi">>, <<"xi", "bao">>, <<"G">>, <<"xi", "G">>, <<"alpha", "a">>},
        ds \in {<<"7">>, <<"1", "2">>},
        page \in {<<"1">>, <<"7", "7">>, <<"0", "7", "7">>, <<"2", "0", "0", "0">>}}

\* lines with a page right behind a page
AdjacentPageLines ==
    { <<"xi", "bao", " ", "a", "b", " ", "7", " ", "8">>,
      <<"xi", "bao", " ", "a", "b", " ", "7", ",", "8", " ", "7", "7", " ", "xi", " ",
        "G", " ", "9">> }

PageLines == Concats(PagePieces, MaxPagePieces) \cup SuffixedLines \cup AdjacentPageLines

InitPage ==
    /\ merged_lines \in {<<line>> : line \in PageLines}
    /\ pc = "merged"
    /\ raw_lines = << >> /\ line_idx = 0 /\ buffer = << >> /\ branches = << >>
    /\ terms_file = NoFile /\ page_boundaries = << >> /\ entries = << >> /\ entry_idx = 0
    /\ successful_extractions = << >> /\ failed_extractions = << >> /\ returned = << >>
    /\ NormalizerIdle /\ SplitterIdle /\ ProcessorIdle /\ ConfigIdle
    /\ OrchestratorIdle

\* entries = processor.split_entries_by_page(merged_lines), core.py:722
SplitEntriesByPage ==
    /\ pc = "merged"
    /\ page_boundaries' =
           [i \in 1..Len(merged_lines) |-> potential_pages(strip(merged_lines[i]))]
    /\ entries' = split_entries_by_page(merged_lines)
    /\ entry_idx' = 1
    /\ pc' = "processing"
    /\ UNCHANGED <<orchestrator_vars,
                   terms_file, successful_extractions, failed_extractions, returned,
                   normalizer_vars, splitter_vars, processor_vars, config_vars,
                   merger_vars>>

SpecPage == InitPage /\ [][SplitEntriesByPage]_vars

\* a term: logographic characters and letters, no space, no digit
IsTerm(s) == Len(s) >= 1 /\ \A i \in 1..Len(s) : IsChinese(s[i]) \/ IsEnglish(s[i])

\* line is term + '-' + digits + ' ' + page with the hyphen at h, the space at k
IsSuffixedLineAt(line, h, k) ==
    /\ 1 < h /\ h + 1 < k /\ k < Len(line)
    /\ line[h] = "-" /\ line[k] = " "
    /\ IsTerm(Slice(line, 1, h - 1))
    /\ IsDigits(Slice(line, h + 1, k - 1))
    /\ IsDigits(Slice(line, k + 1, Len(line)))
    /\ ToInt(Slice(line, k + 1, Len(line))) \in MinPage..MaxPage

\* C4: split_entries_by_page never accepts as a page boundary a digit run that
\* a hyphen or an alphabetic or Greek character immediately precedes, and a line
\* '<term>-<digits> <page>' with page in [1, 2000] yields exactly one Candidate,
\* with content '<term>-<digits>' and page_number '<page>'.
EmbeddedDigitsNotBoundaries ==
    pc = "processing" =>
        /\ \A i \in 1..Len(page_boundaries) :
               \A b \in 1..Len(page_boundaries[i]) :
                   LET start == page_boundaries[i][b].start
                       line_clean == strip(merged_lines[i])
                   IN  start > 0 =>
                           /\ line_clean[start] # "-"
                           /\ ~IsEnglish(line_clean[start])
        /\ \A h, k \in 1..Len(merged_lines[1]) :
               IsSuffixedLineAt(merged_lines[1], h, k) =>
                   entries = << [content |-> Slice(merged_lines[1], 1, k - 1),
                                 page_number |->
                                     Slice(merged_lines[1], k + 1, Len(merged_lines[1]))] >>

\* 'xi bao-7 2000' gave one candidate, of page 2000
SuffixedLineSplit ==
    /\ pc = "processing"
    /\ merged_lines = << <<"xi", "bao", "-", "7", " ", "2", "0", "0", "0">> >>
    /\ Len(page_boundaries[1]) = 1
    /\ entries = << [content |-> <<"xi", "bao", "-", "7">>,
                     page_number |-> <<"2", "0", "0", "0">>] >>

(***************************************************************************)
(* SpecPipeline: extract_and_tag_terms on one file, core.py:683-777.       *)
(***************************************************************************)

MaxFileLines == 2

Cell == <<"c", "e", "l", "l">>
Page77 == <<"7", "7">>

FileLines ==
    { <<"xi", "bao", " ">> \o Cell \o <<" ">> \o Page77,
      <<"xi", "bao", " ">> \o Cell \o <<" ", "D", "N", "A", " ", "7">>,
      <<"xi", " ", "a", "b", " ", "2", "0", "0", "0">>,
      ReferenceHeader \o <<" ">> \o Cell \o <<" ">> \o Page77,
      ReadingHeader \o <<"xi", " ">> \o Cell \o <<" ", "7">>,
      <<"xi", "bao", "-", "7", " ", "G", "A", "D", "-", "7", " ", "1", "2">>,
      <<"xi", "bao", " ">> \o Cell,
      Page77,
      <<"A">>,
      Cell \o <<" ", "5", "1">>,
      <<"xi", "bao", " ", "5", "1">>,
      <<"xi", "bao", "liang", " ", "5", "1">>,
      <<"xi", "bao", " ">> \o Cell \o <<" ">> \o Page77
          \o <<" ", "xi", " ", "a", "b", " ", "7", "7", ",", "8">>,
      << >> }

ChapterOfAll == << <<1, 2000, "A">> >>

PipelineConfigs ==
    {[tag_ranges |-> rs, image_folder |-> ImageFolder, image_prefix |-> ImagePrefix] :
        rs \in {Chapters, ChapterOfAll}}

PipelineDisks ==
    {[folders |-> {ImageFolder},
      files |-> {MediaName(<<"-">>, 4, 77), MediaName(<<"_">>, 4, 77),
                 MediaName(<<"-">>, 4, 7), MediaName(<<"-">>, 4, 2000)}],
     EmptyDisk}

InitPipeline ==
    /\ terms_file \in {[status |-> st, lines |-> ls] :
                          st \in {"ok", "missing", "unreadable"},
                          ls \in SeqsUpTo(FileLines, MaxFileLines)}
    /\ config \in PipelineConfigs
    /\ disk \in PipelineDisks
    /\ pc = "start"
    /\ page_boundaries = << >> /\ entries = << >> /\ entry_idx = 0
    /\ successful_extractions = << >> /\ failed_extractions = << >> /\ returned = << >>
    /\ NormalizerIdle /\ SplitterIdle /\ ProcessorIdle /\ MergerIdle
    /\ OrchestratorIdle

\* what extract_and_tag_terms reports when it gives up on the file
\* f"文件不存在: {terms_file}" for a missing file and f"读取文件失败: {e}" for
\* any other; PATH stands for the path, ERROR for the text of the exception
file_failure(reason) ==
    IF reason = "missing"
    THEN <<"wen", "jian", "bu", "cun", "zai", ":", " ", "PATH">>
    ELSE <<"du", "qu", "wen", "jian", "shi", "bai", ":", " ", "ERROR">>

\* core.py:702-713: a file that does not exist or cannot be read is reported,
\* the lines of any other file are read, each with its line end
ReadFile ==
    /\ pc = "start"
    /\ IF terms_file.status = "ok"
       THEN /\ raw_lines' = [i \in 1..Len(terms_file.lines) |->
                                terms_file.lines[i] \o <<"\n">>]
            /\ line_idx' = 1
            /\ pc' = "merging"
            /\ returned' = returned
       ELSE /\ returned' = << [records |-> << >>,
                               failures |-> <<file_failure(terms_file.status)>>] >>
            /\ pc' = "returned"
            /\ UNCHANGED <<raw_lines, line_idx>>
    /\ UNCHANGED <<orchestrator_vars,
                   buffer, merged_lines, branches, terms_file, page_boundaries, entries,
                   entry_idx, successful_extractions, failed_extractions,
                   normalizer_vars, splitter_vars, processor_vars, config_vars>>

\* one pass of the loop of core.py:726-754
ProcessEntry ==
    /\ pc = "processing"
    /\ entry_idx <= Len(entries)
    /\ LET entry == entries[entry_idx]
           r == process_single_entry(stats, entry.content, entry.page_number,
                                     config.tag_ranges, config.image_folder,
                                     config.image_prefix, disk)
       IN  /\ stats' = r.stats
           /\ last_result' = r.result
           /\ last_content' = entry.content
           /\ last_page' = entry.page_number
           /\ IF Len(r.result) > 0
              THEN /\ successful_extractions' = Append(successful_extractions, r.result[1])
                   /\ failed_extractions' = failed_extractions
              ELSE /\ failed_extractions' =
                          Append(failed_extractions,
                                 failure_description(entry.content, entry.page_number))
                   /\ successful_extractions' = successful_extractions
    /\ entry_idx' = entry_idx + 1
    /\ UNCHANGED <<orchestrator_vars,
                   last_tag, pc, terms_file, page_boundaries, entries, returned,
                   normalizer_vars, splitter_vars, config_vars, merger_vars>>

\* core.py:756-777: the records are sorted, the statistics logged (the success
\* rate divides by total_processed), the two lists returned
Finish ==
    /\ pc = "processing"
    /\ entry_idx > Len(entries)
    /\ successful_extractions' = sort_by_page(successful_extractions)
    /\ IF stats.total_processed = 0
       THEN pc' = "raised" /\ returned' = returned
       ELSE /\ pc' = "returned"
            /\ returned' = << [records |-> sort_by_page(successful_extractions),
                               failures |-> failed_extractions] >>
    /\ UNCHANGED <<orchestrator_vars,
                   terms_file, page_boundaries, entries, entry_idx, failed_extractions,
                   normalizer_vars, splitter_vars, processor_vars, config_vars,
                   merger_vars>>

NextPipeline ==
    \/ ReadFile
    \/ MergeLine
    \/ MergeEnd
    \/ SplitEntriesByPage
    \/ ProcessEntry
    \/ Finish

SpecPipeline == InitPipeline /\ [][NextPipeline]_vars

\* line is run + ' ' + words + ' ' + page with the first space at k, the last at j
IsGlossaryLineAt(line, k, j) ==
    /\ 1 < k /\ k + 1 < j /\ j < Len(line)
    /\ line[k] = " " /\ line[j] = " "
    /\ IsRun(Slice(line, 1, k - 1))
    /\ IsWords(Slice(line, k + 1, j - 1))
    /\ IsDigits(Slice(line, j + 1, Len(line)))
    /\ ToInt(Slice(line, j + 1, Len(line))) \in MinPage..MaxPage

\* the line of a readable one-line file
TheLine ==
    IF terms_file.status = "ok" /\ Len(terms_file.lines) = 1 THEN terms_file.lines[1]
    ELSE << >>

\* C3: for a one-line input '<logographic run> <alphabetic words> <page>' with
\* page in [1, 2000], a tag range containing the page with label L and an
\* existing image file '<prefix>-<page zero-padded to 4 digits>.png', the
\* pipeline returns exactly one Record {run, words, reference to that file,
\* page, L} and no failure description.
OneLineOneRecord ==
    \A k, j \in 1..Len(TheLine) :
        ( /\ pc \in {"returned", "raised"}
          /\ IsGlossaryLineAt(TheLine, k, j)
          /\ RangesContaining(config.tag_ranges,
                              Slice(TheLine, j + 1, Len(TheLine))) # {}
          /\ ImageFolder \in disk.folders
          /\ MediaName(<<"-">>, 4, ToInt(Slice(TheLine, j + 1, Len(TheLine))))
                 \in disk.files )
        => LET page == Slice(TheLine, j + 1, Len(TheLine))
               hits == RangesContaining(config.tag_ranges, page)
           IN  /\ pc = "returned"
               /\ returned =
                      << [records |->
                              << [chinese |-> Slice(TheLine, 1, k - 1),
                                  english |-> Slice(TheLine, k + 1, j - 1),
                                  image |-> ImgTag(MediaName(<<"-">>, 4, ToInt(page))),
                                  page |-> page,
                                  tag |-> config.tag_ranges[
                                      CHOOSE a \in hits : \A b \in hits : a <= b][3]] >>,
                          failures |-> << >>] >>

\* the numeric value of the first digit group of a record's page number
PageKey(r) == IF HasDigit(r.page) THEN ToInt(FirstDigitGroup(r.page)) ELSE 0

SortedByPage(rs) == \A i \in 1..(Len(rs) - 1) : PageKey(rs[i]) <= PageKey(rs[i + 1])

\* the records of rs whose first page value is k, in the order of rs
WithKey(rs, k) == SelectSeq(rs, LAMBDA r : PageKey(r) = k)

\* C11: the records extract_and_tag_terms returns are in non-decreasing order
\* of the first digit group of their page number, and the records of one page
\* value are those met with that value, in the order they were met (the list
\* before the sort).
RecordsSortedStably ==
    [][(pc = "processing" /\ pc' = "returned") =>
          /\ SortedByPage(returned'[1].records)
          /\ Len(returned'[1].records) = Len(successful_extractions)
          /\ \A i \in 1..Len(successful_extractions) :
                 WithKey(returned'[1].records, PageKey(successful_extractions[i]))
                     = WithKey(successful_extractions, PageKey(successful_extractions[i]))
      ]_vars

\* met as pages 77, 77,8 and 7; returned as 7, 77, 77,8
TiedRecordsReturned ==
    /\ pc = "returned"
    /\ Len(terms_file.lines) = 2
    /\ Len(returned[1].records) = 3
    /\ returned[1].records[1].page = <<"7">>
    /\ returned[1].records[2].page = Page77
    /\ returned[1].records[2].chinese = <<"xi", "bao">>
    /\ returned[1].records[3].page = <<"7", "7", ",", "8">>

Reasons == {ReasonFiltered, ReasonNoChinese, ReasonSplitFailed, ReasonOther}

\* '[reason] > content pageNumber'
Described(reason, content, page) ==
    <<"[">> \o reason \o <<"]", " ", ">", " ">> \o content \o <<" ">> \o page

HasReason(d, reason) ==
    /\ Len(d) >= Len(reason) + 2
    /\ SubSeq(d, 1, Len(reason) + 2) = <<"[">> \o reason \o <<"]">>

\* the descriptions so far that give this reason
CountOf(reason) ==
    Cardinality({i \in 1..Len(failed_extractions) :
                    HasReason(failed_extractions[i], reason)})

\* the counter of this name in stats.failure_reasons
Counter(name) ==
    IF name \in DOMAIN stats.failure_reasons THEN stats.failure_reasons[name] ELSE 0

RECURSIVE SumOver(_, _)
SumOver(f, names) ==
    IF names = {} THEN 0
    ELSE LET n == CHOOSE n \in names : TRUE
         IN  f[n] + SumOver(f, names \ {n})

\* every description is '[reason] > content pageNumber' of a candidate
DescriptionsWellFormed ==
    \A i \in 1..Len(failed_extractions) :
        \E j \in 1..Len(entries), reason \in Reasons :
            failed_extractions[i] =
                Described(reason, entries[j].content, entries[j].page_number)

\* C12 as stated: every entry that gave no record, filtered entries included,
\* incremented a counter of stats.failure_reasons and added one description
\* '[reason] > content pageNumber': the counters add up to the descriptions.
EveryNonSuccessInFailureReasons ==
    pc \in {"processing", "returned"} =>
        /\ DescriptionsWellFormed
        /\ Len(failed_extractions) = stats.failed + stats.filtered_out
        /\ SumOver(stats.failure_reasons, DOMAIN stats.failure_reasons)
               = Len(failed_extractions)

\* C12: every entry that gave no record added one description
\* '[reason] > content pageNumber' and none raised; a filtered entry
\* incremented stats.filtered_out and no counter of stats.failure_reasons; a
\* split failure, the entry with no logographic character included,
\* incremented the split-failure counter, a validation failure after cleanup
\* the validation-failure counter, and these are the only counters.
NonSuccessDescribedAndCounted ==
    pc \in {"processing", "returned"} =>
        /\ DescriptionsWellFormed
        /\ Len(failed_extractions) = stats.failed + stats.filtered_out
        /\ CountOf(ReasonFiltered) = stats.filtered_out
        /\ CountOf(ReasonNoChinese) + CountOf(ReasonSplitFailed) = Counter(SplitFailed)
        /\ CountOf(ReasonOther) = Counter(ValidationFailed)
        /\ DOMAIN stats.failure_reasons \subseteq {SplitFailed, ValidationFailed}
        /\ SumOver(stats.failure_reasons, DOMAIN stats.failure_reasons) = stats.failed

\* a filtered entry and an entry of logographic characters only, each
\* described; the second is counted by reason, the first in filtered_out
FilteredAndSplitFailureDescribed ==
    /\ pc = "returned"
    /\ returned[1].failures =
           << Described(ReasonFiltered, ReferenceHeader \o <<" ">> \o Cell, Page77),
              Described(ReasonSplitFailed, <<"xi", "bao", "liang">>, <<"5", "1">>) >>
    /\ stats.filtered_out = 1
    /\ stats.failure_reasons = (SplitFailed :> 1)

\* an entry with no logographic character, counted as a split failure
NoChineseDescribed ==
    /\ pc = "returned"
    /\ returned[1].failures =
           << Described(ReasonNoChinese, Cell, <<"5", "1">>) >>
    /\ stats.failure_reasons = (SplitFailed :> 1)

\* C13: a run that has ended on a missing or unreadable file gave no records
\* and processed no entry, and a run on a readable file, an empty one or one
\* whose lines yield no Candidate included, ended by returning its records and
\* failure descriptions, never by raising.
RunAbortsOnlyOnBadFile ==
    pc \in {"returned", "raised"} =>
        IF terms_file.status = "ok"
        THEN /\ pc = "returned"
             /\ returned = << [records |-> successful_extractions,
                               failures |-> failed_extractions] >>
        ELSE /\ pc = "returned"
             /\ returned[1].records = << >>
             /\ stats.total_processed = 0

(***************************************************************************)
(* SpecBooks: process_single_book (main.py:225-335) on two book folders,   *)
(* one thread each.  Every step makes one access to the working directory  *)
(* or to the files under it; the steps of the two runs interleave.         *)
(***************************************************************************)

Books == {"book1", "book2"}

\* where core.py:31 leaves the working directory when the module is imported
ScriptDir == "src"

\* config.IMAGE_PREFIX of each book; TERMS_FILE is the book's own file name
\* and IMAGE_FOLDER_NAME is ImageFolder in both
BookPrefix(b) == IF b = "book1" THEN <<"s">> ELSE <<"t">>

BookLines ==
    { << <<"xi", "bao", " ">> \o Cell \o <<" ">> \o Page77 >>,
      << <<"xi", "bao", " ">> \o Cell \o <<" ">> \o Page77,
         Cell \o <<" ", "5", "1">> >>,
      << <<"A">> >> }

Shelves ==
    {[b \in Books |->
        [lines |-> IF b = "book1" THEN l1 ELSE l2,
         images |-> {BookPrefix(b) \o <<"-">> \o ZeroPad(Decimal(77), 4) \o Png}]] :
        l1 \in BookLines, l2 \in BookLines}

RunIdle ==
    [pc |-> "start", original_cwd |-> "", entries |-> << >>, entry_idx |-> 0,
     stats |-> ProcessingStats, successful |-> << >>, failed |-> << >>,
     returned |-> << >>]

\* what a relative path names while the working directory is dir: the image
\* folder of the book dir is, and its files
files_under(dir) ==
    IF dir \in Books THEN [folders |-> {ImageFolder}, files |-> shelf[dir].images]
    ELSE EmptyDisk

\* os.path.exists(config.TERMS_FILE) while the working directory is dir
terms_file_under(b, dir) == dir = b

InitBooks ==
    /\ shelf \in Shelves
    /\ cwd = ScriptDir
    /\ runs = [b \in Books |-> RunIdle]
    /\ output_file = << >>
    /\ ValidatorIdle /\ BatchIdle
    /\ NormalizerIdle /\ SplitterIdle /\ ProcessorIdle /\ ConfigIdle
    /\ MergerIdle /\ PipelineIdle

book_idle_vars ==
    <<output_file, shelf, validator_vars, batch_vars, normalizer_vars, splitter_vars, processor_vars, config_vars,
      merger_vars, pipeline_vars>>

\* main.py:272
GetCwd(b) ==
    /\ runs[b].pc = "start"
    /\ runs' = [runs EXCEPT ![b].original_cwd = cwd, ![b].pc = "saved"]
    /\ UNCHANGED <<cwd, book_idle_vars>>

\* main.py:273
ChdirToBook(b) ==
    /\ runs[b].pc = "saved"
    /\ cwd' = b
    /\ runs' = [runs EXCEPT ![b].pc = "in_book"]
    /\ UNCHANGED book_idle_vars

\* core.py:702-705
CheckTermsFile(b) ==
    /\ runs[b].pc = "in_book"
    /\ runs' = IF terms_file_under(b, cwd)
               THEN [runs EXCEPT ![b].pc = "checked"]
               ELSE [runs EXCEPT ![b].pc = "returned",
                                 ![b].returned =
                                     << [records |-> << >>,
                                         failures |-> <<file_failure("missing")>>] >>]
    /\ UNCHANGED <<cwd, book_idle_vars>>

\* core.py:707-724: the file is opened and read, the lines merged and split
ReadTermsFile(b) ==
    /\ runs[b].pc = "checked"
    /\ runs' = IF terms_file_under(b, cwd)
               THEN [runs EXCEPT
                        ![b].pc = "processing",
                        ![b].entry_idx = 1,
                        ![b].entries =
                            split_entries_by_page(merge_broken_lines(
                                [i \in 1..Len(shelf[b].lines) |->
                                    shelf[b].lines[i] \o <<"\n">>]))]
               ELSE [runs EXCEPT ![b].pc = "returned",
                                 ![b].returned =
                                     << [records |-> << >>,
                                         failures |-> <<file_failure("unreadable")>>] >>]
    /\ UNCHANGED <<cwd, book_idle_vars>>

\* the run after one pass of the loop of core.py:726-753 with the files fs
run_entry(run, prefix, fs) ==
    LET entry == run.entries[run.entry_idx]
        r == process_single_entry(run.stats, entry.content, entry.page_number,
                                  ChapterOfAll, ImageFolder, prefix, fs)
    IN  [run EXCEPT
            !.stats = r.stats,
            !.entry_idx = @ + 1,
            !.successful = IF Len(r.result) > 0 THEN Append(@, r.result[1]) ELSE @,
            !.failed = IF Len(r.result) > 0 THEN @
                       ELSE Append(@, failure_description(entry.content,
                                                          entry.page_number))]

\* the run after core.py:755-777
run_finish(run) ==
    IF run.stats.total_processed = 0
    THEN [run EXCEPT !.pc = "raised", !.successful = sort_by_page(@)]
    ELSE [run EXCEPT !.pc = "returned", !.successful = sort_by_page(@),
                     !.returned = << [records |-> sort_by_page(run.successful),
                                      failures |-> run.failed] >>]

ProcessBookEntry(b) ==
    /\ runs[b].pc = "processing"
    /\ runs[b].entry_idx <= Len(runs[b].entries)
    /\ runs' = [runs EXCEPT ![b] = run_entry(@, BookPrefix(b), files_under(cwd))]
    /\ UNCHANGED <<cwd, book_idle_vars>>

FinishBook(b) ==
    /\ runs[b].pc = "processing"
    /\ runs[b].entry_idx > Len(runs[b].entries)
    /\ runs' = [runs EXCEPT ![b] = run_finish(@)]
    /\ UNCHANGED <<cwd, book_idle_vars>>

\* main.py:334-335
RestoreCwd(b) ==
    /\ runs[b].pc \in {"returned", "raised"}
    /\ cwd' = runs[b].original_cwd
    /\ runs' = [runs EXCEPT ![b].pc = "done"]
    /\ UNCHANGED book_idle_vars

NextBooks ==
    \E b \in Books :
        \/ GetCwd(b)
        \/ ChdirToBook(b)
        \/ CheckTermsFile(b)
        \/ ReadTermsFile(b)
        \/ ProcessBookEntry(b)
        \/ FinishBook(b)
        \/ RestoreCwd(b)

SpecBooks == InitBooks /\ [][NextBooks]_vars

\* the run of book b from its loop on, with the book folder as the working
\* directory all the time
RECURSIVE AloneFrom(_, _)
AloneFrom(run, b) ==
    IF run.entry_idx > Len(run.entries) THEN run_finish(run)
    ELSE AloneFrom(run_entry(run, BookPrefix(b), files_under(b)), b)

Alone(b) ==
    AloneFrom([RunIdle EXCEPT
                  !.entry_idx = 1,
                  !.entries = split_entries_by_page(merge_broken_lines(
                                  [i \in 1..Len(shelf[b].lines) |->
                                      shelf[b].lines[i] \o <<"\n">>]))], b)

\* C14: under any interleaving of the runs of two books, a run that has ended
\* has the records, failure descriptions and stats, or has raised, as the run
\* of that book alone: nothing of one run, the working directory included,
\* reaches the other.
RunsIndependent ==
    \A b \in Books :
        runs[b].pc = "done" =>
            /\ runs[b].returned = Alone(b).returned
            /\ runs[b].stats = Alone(b).stats

\* no file the resolver looks for exists for this page in the image folder
NoCandidateExists(page) ==
    HasDigit(page) =>
        \A k \in 1..Len(image_filename_candidates(ImagePrefix,
                                                  ToInt(FirstDigitGroup(page)))) :
            image_filename_candidates(ImagePrefix, ToInt(FirstDigitGroup(page)))[k]
                \notin disk.files

\* C15: a call of process_single_entry on a well-formed content returns the
\* Record and is counted as successful whatever the media directory and the
\* tag ranges: the media tag is empty when the directory does not exist or no
\* candidate file exists, the chapter tag is the unknown-chapter sentinel when
\* no range contains the page, and stats.failed and failure_reasons stay as
\* they were.
RecordDespiteMissingMediaOrTag ==
    Len(last_content) > 0 =>
        /\ Len(last_result) = 1
        /\ last_result[1].chinese = <<"xi", "bao">>
        /\ last_result[1].english = <<"c", "e", "l", "l">>
        /\ last_result[1].page = last_page
        /\ (ImageFolder \notin disk.folders \/ NoCandidateExists(last_page))
               => last_result[1].image = << >>
        /\ RangesContaining(config.tag_ranges, last_page) = {}
               => last_result[1].tag = UnknownChapter
        /\ stats.successful = stats.total_processed
        /\ stats.failed = 0 /\ stats.filtered_out = 0
        /\ stats.failure_reasons = << >>

\* no image folder and page 1234 outside every range: a record all the same
RecordWithoutMediaAndChapter ==
    /\ disk.folders = {}
    /\ last_page = <<"1", "2", "3", "4">>
    /\ Len(last_result) = 1
    /\ last_result[1].image = << >>
    /\ last_result[1].tag = UnknownChapter
    /\ stats.successful = 1 /\ stats.failed = 0

\* entry e is what precedes boundary b of merged line i, with the page of b
FromBoundary(e, i, b) ==
    /\ e.page_number = page_boundaries[i][b].g1
    /\ e.content =
           strip(Slice(strip(merged_lines[i]),
                       (IF b = 1 THEN 0 ELSE page_boundaries[i][b - 1].end) + 1,
                       page_boundaries[i][b].start))

\* C16: every Candidate comes from an accepted boundary of a merged line, so
\* a merged line with no digit group that passes the validity check yields no
\* Candidate; only Candidates are counted in the stats and only Candidates
\* are described as failures.
LinesWithoutPageLeaveNoTrace ==
    (terms_file.status = "ok" /\ pc \in {"processing", "returned", "raised"}) =>
        /\ \A k \in 1..Len(entries) :
               \E i \in 1..Len(merged_lines) :
                   \E b \in 1..Len(page_boundaries[i]) : FromBoundary(entries[k], i, b)
        /\ (\A i \in 1..Len(merged_lines) : page_boundaries[i] = << >>)
               => entries = << >>
        /\ stats.total_processed = entry_idx - 1
        /\ stats.total_processed <= Len(entries)
        /\ stats.failed + stats.filtered_out = Len(failed_extractions)
        /\ stats.successful = Len(successful_extractions)

\* 'xi bao 51': too little before the one digit group; nothing is counted
LineWithoutPageDropped ==
    /\ pc = "raised"
    /\ merged_lines = << <<"xi", "bao", " ", "5", "1">> >>
    /\ page_boundaries = << << >> >>
    /\ entries = << >>
    /\ stats = ProcessingStats
    /\ failed_extractions = << >>

(***************************************************************************)
(* SpecWrite: extract_and_tag_terms, then write_anki_output                *)
(* (core.py:779-797) on the records it returned.                           *)
(***************************************************************************)

\* core.py:784-788
anki_header ==
    << <<"#", "separator:tab", "\n">>,
       <<"#", "html:true", "\n">>,
       <<"#", "notetype column:1", "\n">>,
       <<"#", "deck column:2", "\n">>,
       <<"#", "tags column:8", "\n">> >>

NoteType == <<"yi", "xue", "ying", "yu", "V", "2">>      \* 医学英语V2

\* the default deck_name 词汇卡组 (core.py:779) and one a book configures
DeckNames == {<<"ci", "hui", "ka", "zu">>, <<"g", ":", ":", "S">>}

\* a row with one empty field between the terms and the media tag
row_with_one_empty_field(entry, deck_name) ==
    NoteType \o <<"\t">> \o deck_name \o <<"\t">> \o entry.english \o <<"\t">>
        \o entry.chinese \o <<"\t", "\t">> \o entry.image \o <<"\t">>
        \o <<entry.tag>> \o <<"\n">>

\* core.py:792; the tag is one label
anki_row(entry, deck_name) ==
    NoteType \o <<"\t">> \o deck_name \o <<"\t">> \o entry.english \o <<"\t">>
        \o entry.chinese \o <<"\t", "\t", "\t">> \o entry.image \o <<"\t">>
        \o <<entry.tag>> \o <<"\n">>

\* what the file holds after core.py:782-792
anki_output(successful, deck_name) ==
    anki_header \o [i \in 1..Len(successful) |-> anki_row(successful[i], deck_name)]

\* write_anki_output(successful, config.OUTPUT_FILE, deck_name) as main.py:288
\* calls it; a file that cannot be opened is logged and left unwritten
WriteAnkiOutput(deck_name, writable) ==
    /\ pc = "returned"
    /\ pc' = "written"
    /\ output_file' = IF writable THEN anki_output(returned[1].records, deck_name)
                      ELSE << >>
    /\ UNCHANGED <<cwd, shelf, runs, validator_vars, batch_vars, terms_file, page_boundaries, entries, entry_idx,
                   successful_extractions, failed_extractions, returned,
                   normalizer_vars, splitter_vars, processor_vars, config_vars,
                   merger_vars>>

NextWrite ==
    \/ NextPipeline
    \/ \E deck_name \in DeckNames, writable \in BOOLEAN :
           WriteAnkiOutput(deck_name, writable)

SpecWrite == InitPipeline /\ [][NextWrite]_vars

\* the fields of a row: what the tabs separate, up to the line end
RECURSIVE TabFieldsFrom(_, _, _)
TabFieldsFrom(row, i, field) ==
    IF i > Len(row) \/ row[i] = "\n" THEN <<field>>
    ELSE IF row[i] = "\t" THEN <<field>> \o TabFieldsFrom(row, i + 1, << >>)
    ELSE TabFieldsFrom(row, i + 1, Append(field, row[i]))

TabFields(row) == TabFieldsFrom(row, 1, << >>)

\* C17: the file write_anki_output wrote is the five header lines, then one
\* row for each Record in the order of the list, and each row ends the line
\* and has exactly eight tab-separated fields: the note type, the deck name,
\* the alphabetic term, the logographic term, two empty fields, the media
\* tag, the chapter tag.
AnkiRowsOfEightFields ==
    (pc = "written" /\ output_file # << >>) =>
        /\ Len(output_file) = Len(anki_header) + Len(returned[1].records)
        /\ SubSeq(output_file, 1, Len(anki_header)) = anki_header
        /\ \E deck_name \in DeckNames :
               \A i \in 1..Len(returned[1].records) :
                   LET row == output_file[Len(anki_header) + i]
                       entry == returned[1].records[i]
                   IN  /\ row[Len(row)] = "\n"
                       /\ Len(TabFields(row)) = 8
                       /\ TabFields(row) =
                              <<NoteType, deck_name, entry.english, entry.chinese,
                                << >>, << >>, entry.image, <<entry.tag>> >>

\* two records, of pages 7 and 77, written as the sixth and seventh line
TwoRowsWritten ==
    /\ pc = "written"
    /\ Len(output_file) = 7
    /\ returned[1].records[1].page = <<"7">>
    /\ returned[1].records[2].page = Page77
    /\ output_file[7] =
           NoteType \o <<"\t", "g", ":", ":", "S", "\t">> \o Cell
               \o <<"\t", "xi", "bao", "\t", "\t", "\t">>
               \o ImgTag(MediaName(<<"-">>, 4, 77)) \o <<"\t", "A", "\n">>

\* the digits that end a line
RECURSIVE TrailingDigits(_)
TrailingDigits(line) ==
    IF Len(line) = 0 \/ ~IsDigit(line[Len(line)]) THEN << >>
    ELSE Append(TrailingDigits(SubSeq(line, 1, Len(line) - 1)), line[Len(line)])

\* the raw line, normalized, is neither page-only nor ignorable and ends in
\* whitespace and a digit group that passes the page-number check of
\* split_entries_by_page where the group stands
EndsInRealPage(raw) ==
    LET line == _normalize(strip(raw))
        page == TrailingDigits(line)
        start == Len(line) - Len(page)
    IN  /\ ~IsPageOnlyLine(line) /\ ~IsIgnorableLine(line)
        /\ Len(page) > 0 /\ start > 0 /\ IsSpace(line[start])
        /\ _is_real_page_number(line, start, page)

\* C18: when merge_broken_lines has taken a line that is not page-only, not
\* ignorable and ends in whitespace and a digit group passing the page-number
\* check, the buffer is empty and the last merged entry is the buffer joined
\* with that line: it ends with the line.
PageEndedLineFlushes ==
    (pc = "merging" /\ line_idx > 1 /\ EndsInRealPage(raw_lines[line_idx - 1])) =>
        LET line == _normalize(strip(raw_lines[line_idx - 1]))
        IN  /\ buffer = << >>
            /\ Len(merged_lines) > 0
            /\ Len(merged_lines[Len(merged_lines)]) >= Len(line)
            /\ SubSeq(merged_lines[Len(merged_lines)],
                      Len(merged_lines[Len(merged_lines)]) - Len(line) + 1,
                      Len(merged_lines[Len(merged_lines)])) = line

\* a page-only line as the merger sees it: digit groups, a comma and
\* optional whitespace between one and the next
IsPageMarker(line) ==
    /\ IsPageOnlyLine(line)
    /\ IsDigit(line[1]) /\ IsDigit(line[Len(line)])
    /\ \A i \in 2..Len(line) : IsSpace(line[i]) => ~IsDigit(line[i - 1])

\* C19: when merge_broken_lines takes a page-only line with a non-empty
\* buffer, the buffer, a space and the line become one new completed entry
\* and the buffer is cleared; with an empty buffer and an entry already
\* flushed, a space and the line are appended to the last entry and no entry
\* is added.
PageOnlyLineClosesEntry ==
    [][(pc = "merging" /\ line_idx' = line_idx + 1
        /\ IsPageMarker(_normalize(strip(raw_lines[line_idx])))) =>
          LET line == _normalize(strip(raw_lines[line_idx]))
              n == Len(merged_lines)
          IN  IF buffer # << >>
              THEN /\ merged_lines' = Append(merged_lines, buffer \o <<" ">> \o line)
                   /\ buffer' = << >>
              ELSE IF n > 0
              THEN /\ Len(merged_lines') = n
                   /\ SubSeq(merged_lines', 1, n - 1) = SubSeq(merged_lines, 1, n - 1)
                   /\ merged_lines'[n] = merged_lines[n] \o <<" ">> \o line
                   /\ buffer' = << >>
              ELSE buffer' = << >> /\ merged_lines' = << >>
      ]_vars

\* the first page line closed the entry, the second joined it
OrphanPageJoinedPrevious ==
    /\ pc = "merged"
    /\ raw_lines = << <<"xi", "bao">>, <<"7", "7">>, <<"7", "FWCOMMA", " ", "8", "\n">> >>
    /\ branches = <<"accumulate", "page_closes_buffer", "page_joins_previous">>
    /\ merged_lines = << <<"xi", "bao", " ", "7", "7", " ", "7", ",", " ", "8">> >>

\* the five conditions on the digit group matched at m in line
FiveConditions(line, m) ==
    /\ ToInt(FirstDigitGroup(m.g1)) \in MinPage..MaxPage
    /\ (m.start > 0 => line[m.start] # "-")
    /\ (m.start > 0 => ~IsEnglish(line[m.start]))
    /\ Len(strip(SubSeq(line, 1, m.start))) >= 3
    /\ m.start > 0 /\ line[m.start] = " "

\* C20: of the digit groups split_entries_by_page matches in a line, the
\* boundaries are those for which all five conditions hold: the leading digit
\* group is in [1, 2000], the character before is not a hyphen, it is not an
\* alphabetic or Greek character, the trimmed text before the match has at
\* least 3 characters, and the character before the digits is a space.
BoundaryIffFiveConditions ==
    pc = "processing" =>
        LET line_clean == strip(merged_lines[1])
            matches == re_finditer(boundary_pattern, line_clean)
        IN  page_boundaries[1] =
                SelectSeq(matches, LAMBDA m : FiveConditions(line_clean, m))

\* '2001 7': two digit groups matched, only the second is a boundary
OneOfTwoGroupsAccepted ==
    /\ pc = "processing"
    /\ merged_lines = << <<"2", "0", "0", "1", " ", "7">> >>
    /\ Len(re_finditer(boundary_pattern, merged_lines[1])) = 2
    /\ Len(page_boundaries[1]) = 1
    /\ page_boundaries[1][1].g1 = <<"7">>
    /\ entries = << [content |-> <<"2", "0", "0", "1">>, page_number |-> <<"7">>] >>

\* the trimmed text between boundary b of the line and the one before it
ContentBefore(b) ==
    strip(Slice(strip(merged_lines[1]),
                (IF b = 1 THEN 0 ELSE page_boundaries[1][b - 1].end) + 1,
                page_boundaries[1][b].start))

\* the boundaries of the line with text in front of them, left to right
BoundariesWithContent ==
    SelectSeq([b \in 1..Len(page_boundaries[1]) |-> b],
              LAMBDA b : Len(ContentBefore(b)) > 0)

\* C21 as stated: a line with k accepted boundaries gives k Candidates, the
\* b-th with the text between boundary b - 1 and boundary b as content and
\* the digit group of boundary b as page_number.
OneCandidatePerBoundary ==
    pc = "processing" =>
        /\ Len(entries) = Len(page_boundaries[1])
        /\ \A b \in 1..Len(entries) : FromBoundary(entries[b], 1, b)

\* C21: a line gives one Candidate for each accepted boundary that has text
\* other than whitespace between it and the boundary before it (or the start
\* of the line), in left-to-right order; the content is that text, trimmed,
\* and the page_number is the matched digit group as it stands in the line.
\* A boundary right behind another gives no Candidate.
OneCandidatePerBoundaryWithContent ==
    pc = "processing" =>
        /\ Len(entries) = Len(BoundariesWithContent)
        /\ \A j \in 1..Len(entries) :
               /\ entries[j].content = ContentBefore(BoundariesWithContent[j])
               /\ entries[j].page_number =
                      SubSeq(strip(merged_lines[1]),
                             page_boundaries[1][BoundariesWithContent[j]].start + 1,
                             page_boundaries[1][BoundariesWithContent[j]].end)

\* 'xi bao ab 7,8 77 xi G 9': three boundaries, the second right behind the
\* first, two Candidates
ThreeBoundariesTwoCandidates ==
    /\ pc = "processing"
    /\ Len(page_boundaries[1]) = 3
    /\ entries = << [content |-> <<"xi", "bao", " ", "a", "b">>,
                     page_number |-> <<"7", ",", "8">>],
                    [content |-> <<"xi", " ", "G">>, page_number |-> <<"9">>] >>

\* the six strategies in their order: numeric-suffix, uppercase-boundary,
\* basic last-logograph, logograph-block, pattern, special-character
StrategyResults(content) ==
    << split_chinese_english_with_numbers(content),
       split_chinese_english_uppercase_ending(content),
       split_chinese_english_basic(content),
       split_chinese_english_blocks(content),
       split_chinese_english_patterns(content),
       split_chinese_english_special_chars(content) >>

\* the result is a pair that enhanced validation accepts
Wins(result) ==
    result # None /\ validate_split_result_enhanced(result[1], result[2])

\* C22: split_chinese_english tries the six strategies in their fixed order
\* and returns the result of the earliest one whose result passes enhanced
\* validation; a strategy with no result or a rejected result is followed by
\* the next one, and none is returned only when all six fail.
EarliestValidStrategyWins ==
    /\ \A j \in 1..Len(attempts) : attempts[j] = StrategyResults(last_content)[j]
    /\ split_return # << >> =>
           LET winners == {j \in 1..6 : Wins(StrategyResults(last_content)[j])}
           IN  IF winners = {} THEN split_return = <<None>> /\ Len(attempts) = 6
               ELSE /\ split_return =
                           << StrategyResults(last_content)[
                                  CHOOSE j \in winners : \A i \in winners : j <= i] >>
                    /\ Len(attempts) = CHOOSE j \in winners : \A i \in winners : j <= i

\* a strategy gave a result that was rejected and a later one gave the split
LaterStrategyWon ==
    /\ last_content = <<"xi", "G", " ", "G">>
    /\ attempts = << None, << <<"xi", "G">>, <<"G">> >>, << <<"xi">>, <<"G", " ", "G">> >> >>
    /\ split_return = << << <<"xi">>, <<"G", " ", "G">> >> >>

(***************************************************************************)
(* SpecValidate: the two validators and the cleanup of process_single_entry *)
(* applied to one (chinese, english).                                      *)
(***************************************************************************)

MaxHalfPieces == 3

ChineseHalves ==
    { << >>, <<" ">>, <<"xi">>, <<"a">>, <<"7">>, <<"xi", "bao">>, <<" ", "xi", " ">>,
      <<"xi", "FWCOMMA">>, <<"xi", " ", "-">>, <<"a", "xi">> }

HalfPieces == { <<"a">>, <<"G">>, <<"7">>, <<" ">>, <<"xi">>, <<"FWCOMMA">>, <<"-">> }

\* letters 'a' followed by digits '7'
Padded(letters, digits) == [i \in 1..(letters + digits) |-> IF i <= letters THEN "a" ELSE "7"]

\* second halves at and around three letters in ten characters
ThresholdHalves ==
    { Padded(3, 7), Padded(2, 5), Padded(3, 8), Padded(4, 9), Padded(1, 3),
      Padded(2, 4), Padded(6, 14), Padded(5, 12) }

EnglishHalves == Concats(HalfPieces, MaxHalfPieces) \cup ThresholdHalves

InitValidate ==
    /\ pair \in ChineseHalves \X EnglishHalves
    /\ verdict = << >>
    /\ BatchIdle
    /\ output_file = << >> /\ cwd = "" /\ shelf = << >> /\ runs = << >>
    /\ NormalizerIdle /\ SplitterIdle /\ ProcessorIdle /\ ConfigIdle
    /\ MergerIdle /\ PipelineIdle

validator_idle_vars ==
    <<pair, batch_vars, output_file, cwd, shelf, runs, normalizer_vars, splitter_vars, processor_vars, config_vars, merger_vars, pipeline_vars>>

\* validate_split_result(chinese, english), core.py:369-392
ValidateSplitResult ==
    /\ verdict = << >>
    /\ verdict' = << [by |-> "basic", chinese |-> pair[1], english |-> pair[2],
                      accepted |-> validate_split_result(pair[1], pair[2])] >>
    /\ UNCHANGED validator_idle_vars

\* validate_split_result_enhanced(chinese, english), core.py:394-413
ValidateSplitResultEnhanced ==
    /\ verdict = << >>
    /\ verdict' = << [by |-> "enhanced", chinese |-> pair[1], english |-> pair[2],
                      accepted |-> validate_split_result_enhanced(pair[1], pair[2])] >>
    /\ UNCHANGED validator_idle_vars

\* core.py:493-500: the pair split_chinese_english returned (one its enhanced
\* validation accepted, core.py:428) is cleaned and validated again
CleanAndValidate ==
    /\ verdict = << >>
    /\ validate_split_result_enhanced(pair[1], pair[2])
    /\ verdict' = << [by |-> "cleaned", chinese |-> clean_text(pair[1]),
                      english |-> clean_text(pair[2]),
                      accepted |-> validate_split_result(clean_text(pair[1]),
                                                         clean_text(pair[2]))] >>
    /\ UNCHANGED validator_idle_vars

NextValidate == ValidateSplitResult \/ ValidateSplitResultEnhanced \/ CleanAndValidate

SpecValidate == InitValidate /\ [][NextValidate]_vars

\* the alphabetic characters of a string, counted one position at a time
Letters(s) == {i \in 1..Len(s) : s[i] \in EnglishChars}

\* C23: basic validation accepts (first, second) if and only if both are
\* non-empty, first contains a logographic character, second contains an
\* alphabetic character, and the alphabetic characters of second are at least
\* 30% of its length, exactly 30% included.
BasicAcceptsIff ==
    (verdict # << >> /\ verdict[1].by = "basic") =>
        LET first == verdict[1].chinese
            second == verdict[1].english
        IN  verdict[1].accepted <=>
                /\ first # << >> /\ second # << >>
                /\ \E i \in 1..Len(first) : first[i] \in ChineseChars
                /\ Letters(second) # {}
                /\ 10 * Cardinality(Letters(second)) >= 3 * Len(second)

ExactlyThirtyPercentAccepted ==
    /\ pair = << <<"xi">>, <<"a", "a", "a", "7", "7", "7", "7", "7", "7", "7">> >>
    /\ verdict # << >> /\ verdict[1].by = "basic" /\ verdict[1].accepted

\* C24: enhanced validation accepts (first, second) if and only if basic
\* validation accepts it, second has at least 2 alphabetic characters and
\* second has no logographic character; so what it accepts, basic accepts.
EnhancedAcceptsIff ==
    (verdict # << >> /\ verdict[1].by = "enhanced") =>
        LET first == verdict[1].chinese
            second == verdict[1].english
        IN  /\ verdict[1].accepted <=>
                /\ validate_split_result(first, second)
                /\ Cardinality(Letters(second)) >= 2
                /\ \A i \in 1..Len(second) : second[i] \notin ChineseChars
            /\ verdict[1].accepted => validate_split_result(first, second)

EnhancedRejectsWhatBasicAccepts ==
    /\ verdict # << >> /\ verdict[1].by = "enhanced" /\ ~verdict[1].accepted
    /\ pair \in { << <<"xi">>, <<"a", "7">> >>, << <<"xi">>, <<"a", "G", "xi">> >> }
    /\ validate_split_result(pair[1], pair[2])

\* C28: cleanup never invalidates an accepted split: the cleaned halves of a
\* pair the enhanced validation accepted pass the basic validation, so the
\* post-cleanup validation failure is never recorded.
CleanupKeepsSplitValid ==
    /\ (verdict # << >> /\ verdict[1].by = "cleaned") => verdict[1].accepted
    /\ ValidationFailed \notin DOMAIN stats.failure_reasons

CleanupChangedBothTerms ==
    /\ pair = << <<"xi", "FWCOMMA">>, <<"a", "G", "-">> >>
    /\ verdict = << [by |-> "cleaned", chinese |-> <<"xi">>, english |-> <<"a", "G">>,
                     accepted |-> TRUE] >>

\* a trimmed content that names no term: a pure section header, fewer than
\* two characters, or no letter and no logographic character at all
PureHeaders == {IndexHeader, ReadingHeader, ReferenceHeader}

CarriesNoTerm(c) ==
    \/ c \in PureHeaders
    \/ Len(c) < 2
    \/ \A i \in 1..Len(c) : c[i] \notin (ChineseChars \cup EnglishChars)

\* C25: process_single_entry filters a content only when its trimmed form is
\* a pure index/reference-section header, a single character, made of
\* symbols and digits only, or shorter than 2 characters; a content with a
\* term after a header token is not filtered.
FiltersOnlyContentWithoutTerm ==
    [][stats'.filtered_out > stats.filtered_out => CarriesNoTerm(strip(last_content'))]_vars

\* a line the merger skips: blank, a lone uppercase letter, the index header
IsSkippedLine(line) == IsBlankLine(line) \/ IsIgnorableLine(line)

WithoutSkipped(lines) == SelectSeq(lines, LAMBDA l : ~IsSkippedLine(l))

\* C26: in merge_broken_lines a blank line or an ignorable line (a lone
\* uppercase letter or the index header) leaves the buffer and the flushed
\* entries unchanged, so the output is that of the input without these lines:
\* an entry split over the lines around one is still joined.
SkippedLinesChangeNothing ==
    /\ [][(pc = "merging" /\ line_idx' = line_idx + 1 /\ IsSkippedLine(raw_lines[line_idx]))
            => (buffer' = buffer /\ merged_lines' = merged_lines)]_vars
    /\ [](pc = "merged" => merged_lines = merge_broken_lines(WithoutSkipped(raw_lines)))

EntryJoinedAcrossSkippedLine ==
    /\ pc = "merged"
    /\ raw_lines \in { << <<"xi", "bao">>, skipped, <<"a", "b", " ", "7">> >> :
                          skipped \in {<<"\n">>, <<"A">>, IndexHeader} }
    /\ merged_lines = << <<"xi", "bao", " ", "a", "b", " ", "7">> >>

\* the strings of a list joined with single spaces
RECURSIVE JoinWithSpaces(_)
JoinWithSpaces(strings) ==
    IF Len(strings) = 0 THEN << >>
    ELSE IF Len(strings) = 1 THEN strings[1]
    ELSE strings[1] \o <<" ">> \o JoinWithSpaces(Tail(strings))

\* the normalized trimmed lines from line i on that the merger keeps: all but
\* the blank lines, the ignorable lines and the page-only lines met while no
\* entry exists yet
RECURSIVE KeptNormalizedFrom(_, _, _)
KeptNormalizedFrom(lines, i, entry_exists) ==
    IF i > Len(lines) THEN << >>
    ELSE LET line == _normalize(strip(lines[i]))
         IN  IF \/ IsSkippedLine(lines[i])
                \/ (re_match(page_only_pat, line).ok /\ ~entry_exists)
             THEN KeptNormalizedFrom(lines, i + 1, entry_exists)
             ELSE <<line>> \o KeptNormalizedFrom(lines, i + 1, TRUE)

\* C29: merge_broken_lines never reorders content: its output entries joined
\* with single spaces are the normalized trimmed lines it kept (all but blank
\* lines, ignorable lines and page-only lines seen before any entry exists)
\* joined in input order with single spaces.
MergeKeepsInputOrder ==
    pc = "merged" =>
        JoinWithSpaces(merged_lines) = JoinWithSpaces(KeptNormalizedFrom(raw_lines, 1, FALSE))

OrphanPageAfterNormalizedEntry ==
    /\ pc = "merged"
    /\ raw_lines = << <<"xi", "\t", "a", "b", "\n">>, <<"7", "7">>,
                      <<"7", "FWCOMMA", " ", "8", "\n">> >>
    /\ merged_lines = << <<"xi", " ", "a", "b", " ", "7", "7", " ", "7", ",", " ", "8">> >>

\* fewer than 2 alphabetic characters follow the last logographic character
FewLettersFollow(content) ==
    /\ LastChinese(content) > 0
    /\ Cardinality({i \in (LastChinese(content) + 1)..Len(content) :
                        content[i] \in EnglishChars}) < 2

\* the second term of every returned pair has no logographic character and
\* at least 2 alphabetic characters
SecondTermAlphabetic ==
    (split_return # << >> /\ split_return # <<None>>) =>
        LET english == split_return[1][2]
        IN  /\ \A i \in 1..Len(english) : english[i] \notin ChineseChars
            /\ Cardinality({i \in 1..Len(english) : english[i] \in EnglishChars}) >= 2

\* term is the text in a pair of parentheses of content that has a
\* logographic character in front of it and one behind it
ParenthesisedIn(content, term) ==
    \E i, j \in 1..Len(content) :
        /\ i < j /\ content[i] = "(" /\ content[j] = ")"
        /\ term = strip(Slice(content, i + 1, j - 1))
        /\ \E k \in 1..(i - 1) : content[k] \in ChineseChars
        /\ \E k \in (j + 1)..Len(content) : content[k] \in ChineseChars

\* C30 as stated: split_chinese_english returns none whenever fewer than 2
\* alphabetic characters follow the last logographic character of content;
\* the second term of a returned pair has no logographic character and at
\* least 2 alphabetic characters.
NoneUnlessTwoLettersFollow ==
    /\ (split_return # << >> /\ FewLettersFollow(last_content)) => split_return = <<None>>
    /\ SecondTermAlphabetic

\* C30: when fewer than 2 alphabetic characters follow the last logographic
\* character of content, split_chinese_english returns none or, from the
\* pattern strategy, the text of a pair of parentheses that stands between
\* logographic characters; the second term of a returned pair has no
\* logographic character and at least 2 alphabetic characters.
NoneUnlessLettersFollowOrParenthesised ==
    /\ (split_return # << >> /\ split_return # <<None>> /\ FewLettersFollow(last_content)) =>
           /\ Len(attempts) = 5
           /\ ParenthesisedIn(last_content, split_return[1][2])
    /\ SecondTermAlphabetic

ParenthesisedTermReturned ==
    /\ last_content = <<"xi", "bao", " ", "(", "c", "e", "l", "l", ")", " ", "xi">>
    /\ split_return = << << <<"xi", "bao">>, <<"c", "e", "l", "l">> >> >>

(***************************************************************************)
(* SpecBatch: the batch loop of main over the book folders, one            *)
(* process_single_book call at a time.                                     *)
(***************************************************************************)

MaxBooks == 2

BookNames == <<"book1", "book2", "book3", "book4">>

\* what a book folder can hold: no config.py, one that does not load, one
\* without a required field, one with a folder or file name that is no
\* string, one that names a terms file that is missing, cannot be decoded,
\* or holds lines
FolderStates ==
    {[config |-> c, terms |-> "missing", lines |-> << >>, writable |-> TRUE] :
        c \in {"missing", "unloadable", "incomplete", "ill_typed", "ok"}}
    \cup {[config |-> "ok", terms |-> "unreadable", lines |-> << >>, writable |-> w] :
             w \in BOOLEAN}
    \cup {[config |-> "ok", terms |-> "ok", lines |-> l, writable |-> w] :
             l \in BookLines, w \in BOOLEAN}

Folder(name, st) ==
    [name |-> name, config |-> st.config, terms |-> st.terms, lines |-> st.lines, writable |-> st.writable]

\* main.py:366-370 and :398: every folder of the books directory, once
RECURSIVE FoldersOf(_)
FoldersOf(n) ==
    IF n = 0 THEN {<< >>}
    ELSE {Append(fs, Folder(BookNames[n], st)) : fs \in FoldersOf(n - 1), st \in FolderStates}

\* main.py:408-409 and :417: the selected folders, a folder twice if its
\* number is entered twice
Reselected == {<<Folder(BookNames[1], st), Folder(BookNames[1], st)>> : st \in FolderStates}

BatchFolders == UNION {FoldersOf(n) : n \in 1..MaxBooks} \cup Reselected

\* ProcessingReport.__init__, main.py:37-43
NewReport ==
    [books_processed |-> << >>, books_failed |-> << >>,
     total_successful_entries |-> 0, total_failed_entries |-> 0,
     detailed_stats |-> << >>]

\* ProcessingReport.add_book_result, main.py:45-60; detailed_stats keeps the
\* counts of each processed book
add_book_result(rep, book_name, success, successful_count, failed_count) ==
    IF success
    THEN [rep EXCEPT
            !.books_processed = Append(@, book_name),
            !.total_successful_entries = @ + successful_count,
            !.total_failed_entries = @ + failed_count,
            !.detailed_stats = Append(@, [book |-> book_name,
                                          successful |-> successful_count,
                                          failed |-> failed_count])]
    ELSE [rep EXCEPT !.books_failed = Append(@, book_name)]

\* the loop of core.py:726-753 and the end of extract_and_tag_terms
RECURSIVE run_to_end(_, _, _)
run_to_end(run, prefix, fs) ==
    IF run.entry_idx > Len(run.entries) THEN run_finish(run)
    ELSE CHOOSE end \in {run_to_end(next, prefix, fs) : next \in {run_entry(run, prefix, fs)}} :
             TRUE

\* extract_and_tag_terms(config.TERMS_FILE, ...) as main.py:281 calls it in
\* the book folder: the run it ends in, returned or raised
book_run(folder) ==
    IF folder.terms = "unreadable"
    THEN [RunIdle EXCEPT !.pc = "returned",
                         !.returned = << [records |-> << >>,
                                          failures |-> <<file_failure("unreadable")>>] >>]
    ELSE CHOOSE end \in
             {run_to_end([RunIdle EXCEPT !.pc = "processing", !.entry_idx = 1,
                                         !.entries = entries_read],
                         BookPrefix("book1"), [folders |-> {ImageFolder}, files |-> {}]) :
                 entries_read \in
                     {split_entries_by_page(merge_broken_lines(
                          [i \in 1..Len(folder.lines) |-> folder.lines[i] \o <<"\n">>]))}} :
             TRUE

\* main.py:275-332 with the run extract_and_tag_terms ended in: an exception
\* is caught and the book recorded as failed, a result is written and the
\* book recorded with its counts
book_outcome(rep, folder, run) ==
    IF run.pc = "raised"
    THEN [report |-> add_book_result(rep, folder.name, FALSE, 0, 0), result |-> "False",
          output |-> << >>]
    ELSE [report |-> add_book_result(rep, folder.name, TRUE,
                                     Len(run.returned[1].records),
                                     Len(run.returned[1].failures)),
          result |-> "True",
          output |-> IF folder.writable
                     THEN anki_output(run.returned[1].records, <<folder.name>>)
                     ELSE << >>]

\* process_single_book(book_folder, report), main.py:225-335: the report and
\* the output file after the call, and what it returns.  os.path.join on a
\* name that is no string raises TypeError at main.py:249-252, where only
\* AttributeError is caught: the call ends in the exception.
process_single_book(rep, folder) ==
    IF folder.config = "ill_typed"
    THEN [report |-> rep, result |-> "TypeError", output |-> << >>]
    ELSE IF folder.config # "ok" \/ folder.terms = "missing"
    THEN [report |-> add_book_result(rep, folder.name, FALSE, 0, 0), result |-> "False",
          output |-> << >>]
    ELSE CHOOSE outcome \in {book_outcome(rep, folder, run) : run \in {book_run(folder)}} :
             TRUE

InitBatch ==
    /\ book_folders \in BatchFolders
    /\ book_idx = 1
    /\ report = NewReport
    /\ book_returns = << >>
    /\ cwd = ScriptDir
    /\ output_file = << >> /\ shelf = << >> /\ runs = << >>
    /\ ValidatorIdle
    /\ NormalizerIdle /\ SplitterIdle /\ ProcessorIdle /\ ConfigIdle
    /\ MergerIdle /\ PipelineIdle

\* one pass of the loop of main.py:398-400 (or :417-419); the working
\* directory is back where it was when the call returns (main.py:272, :335);
\* an exception the call ends in leaves the loop and main
ProcessSingleBook ==
    /\ book_idx \in 1..Len(book_folders)
    /\ \E r \in {process_single_book(report, book_folders[book_idx])} :
           /\ report' = r.report
           /\ book_returns' = Append(book_returns, r.result)
           /\ output_file' = r.output
           /\ book_idx' = IF r.result = "TypeError" THEN Len(book_folders) + 1
                          ELSE book_idx + 1
    /\ UNCHANGED <<book_folders, cwd, shelf, runs, validator_vars, normalizer_vars, splitter_vars, processor_vars, config_vars, merger_vars, pipeline_vars>>

SpecBatch == InitBatch /\ [][ProcessSingleBook]_vars

InList(name, list) == \E i \in 1..Len(list) : list[i] = name

\* a folder whose book fails: no config.py, no terms file, or a run that
\* raises
BookFails(folder) ==
    \/ folder.config = "missing"
    \/ (folder.config = "ok" /\ folder.terms = "missing")
    \/ (folder.config = "ok" /\ folder.terms = "ok" /\ book_run(folder).pc = "raised")

\* every call that returns leaves its book in exactly one of books_processed
\* and books_failed and returns True exactly for a processed book; a book
\* without config.py, without terms file or with a run that raises is
\* recorded as failed and the loop takes the next book
ReturnedCallsRecorded ==
    \A k \in 1..Len(book_returns) :
        LET name == book_folders[k].name
        IN  /\ BookFails(book_folders[k]) =>
                   /\ book_returns[k] = "False"
                   /\ InList(name, report.books_failed)
                   /\ Len(book_returns) = k => book_idx = k + 1
            /\ book_returns[k] \in {"True", "False"} =>
                   /\ InList(name, report.books_processed) # InList(name, report.books_failed)
                   /\ (book_returns[k] = "True") = InList(name, report.books_processed)

\* C27: in the batch loop a failure while processing one book records that
\* book as failed and the loop goes on with the next book; after each
\* process_single_book call the book is in exactly one of books_processed and
\* books_failed, and the call returned True exactly when it is in
\* books_processed.
EachBookInExactlyOneList ==
    \A k \in 1..Len(book_returns) :
        LET name == book_folders[k].name
        IN  /\ InList(name, report.books_processed) # InList(name, report.books_failed)
            /\ (book_returns[k] = "True") = InList(name, report.books_processed)
            /\ (book_returns[k] # "True" /\ Len(book_returns) = k) => book_idx = k + 1

====
